---- MODULE Spec2Model ----
(***************************************************************************)
(* Model of the Pik Intercom integration for Home Assistant.               *)
(*                                                                         *)
(* The module holds one state machine per component of the integration:    *)
(*   - the in-flight-future deduplication of entity refreshes (_base.py),  *)
(*   - the retrying update coordinator (entity.py),                        *)
(*   - the paginated collection fetchers of the API client (api.py),       *)
(*   - the call-session walk of the API client (api.py),                   *)
(*   - the entity reconciler (entity.py),                                  *)
(*   - authentication and the first refresh at config-entry setup          *)
(*     (helpers.py, __init__.py),                                          *)
(*   - the records of the client as objects and the entities that hold     *)
(*     them (api.py, entity.py, _base.py),                                 *)
(*   - requests, authentication and unlocking of the API client (api.py),  *)
(*   - the last-call-session coordinator (entity.py),                      *)
(*   - the filter of the ICM properties, the unload of a config entry and  *)
(*     the update intervals (__init__.py, const.py),                       *)
(*   - the options flow (config_flow.py),                                  *)
(*   - the unlocker switch (switch.py).                                    *)
(* Every component has its own next-state relation and specification over  *)
(* the shared variable list; the variables of the other components stay    *)
(* unchanged.                                                              *)
(***************************************************************************)
EXTENDS Integers, Sequences, FiniteSets, TLC

VARIABLES
    \* ---- _base.py: BasePikIntercomPropertyDeviceEntity.async_update_data
    futures,        \* _intercom_getter_futures: key -> future (NoFuture: no entry)
    futState,       \* every future created so far: its asyncio state
    fetchResult,    \* per future: how the owner's API fetch really ended
    caller,         \* per calling task: where it is in async_update_data
    \* ---- entity.py: BasePikUpdateCoordinator._async_update_data
    upd,            \* the running coordinator update
    \* ---- api.py: PikIntercomAPI collections and their fetchers
    api,            \* the client's in-memory collections
    walk,           \* the running page walk (locals of the async_update_* call)
    pre,            \* the collections as they were when the walk started
    walks,          \* number of walks started
    \* ---- entity.py: async_add_entities_iteration / _with_listener
    containers,     \* per config entry: the ids in its container (api.iot_meters)
    entities,       \* hass.data[DATA_ENTITIES][entity_cls]: key -> wrapper
    listeners,      \* the coordinators that have add_call as a listener
    reconciled,     \* what the reconciler invocations have done so far
    \* ---- __init__.py: async_setup_entry
    tasks,          \* the first-refresh task of every coordinator
    setup,          \* where async_setup_entry is, and what it has stored
    \* ---- api.py records as objects; entity.py / _base.py wrappers
    objects,        \* per collection and id: the record objects created so far
    wrappers,       \* per collection and id: the entity holding a record object
    \* ---- api.py: PikIntercomAPI._async_req and the calls built on it
    client,         \* _authorization, _request_counter, _account
    call,           \* the last call made on the client and how it went
    \* ---- entity.py: PikLastCallSessionUpdateCoordinator
    lcsc,           \* the coordinator's data, the session cache, the last poll
    \* ---- __init__.py: async_init_icm_coordinators
    icmProps,       \* the properties of the account and the ones kept
    \* ---- __init__.py: async_unload_entry
    hassData,       \* hass.data[DOMAIN], hass.data[DATA_REAUTHENTICATORS], timers
    unloads,        \* the unloads so far and what the last one did
    \* ---- __init__.py: the update intervals of a config entry
    schedules,      \* the configured intervals and the schedules made of them
    \* ---- config_flow.py: the options flow of a config entry
    optionsFlow,    \* the entry's options and the result of the last step
    \* ---- switch.py: _BaseUnlockerSwitch
    unlocker        \* the switch, its reset timers and its unlock requests

dedupVars == <<futures, futState, fetchResult, caller>>
retryVars == <<upd>>
fetchVars == <<api, walk, pre, walks>>
reconcileVars == <<containers, entities, listeners, reconciled>>
setupVars == <<tasks, setup>>
objectVars == <<objects, wrappers>>
clientVars == <<client, call>>
lcsVars == <<lcsc>>
icmVars == <<icmProps>>
unloadVars == <<hassData, unloads>>
scheduleVars == <<schedules>>
optionsVars == <<optionsFlow>>
switchVars == <<unlocker>>
vars == <<futures, futState, fetchResult, caller, upd, api, walk, pre, walks,
          containers, entities, listeners, reconciled, tasks, setup,
          objects, wrappers, client, call, lcsc,
          icmProps, hassData, unloads, schedules, optionsFlow, unlocker>>
\* What the actions of one component leave unchanged.
othersOfDedup == <<retryVars, fetchVars, reconcileVars, setupVars, objectVars, clientVars, lcsVars,
    icmVars, unloadVars, scheduleVars, optionsVars, switchVars>>
othersOfRetry == <<dedupVars, fetchVars, reconcileVars, setupVars, objectVars, clientVars, lcsVars,
    icmVars, unloadVars, scheduleVars, optionsVars, switchVars>>
othersOfFetch == <<dedupVars, retryVars, reconcileVars, setupVars, objectVars, clientVars, lcsVars,
    icmVars, unloadVars, scheduleVars, optionsVars, switchVars>>
othersOfReconcile == <<dedupVars, retryVars, fetchVars, setupVars, objectVars, clientVars, lcsVars,
    icmVars, unloadVars, scheduleVars, optionsVars, switchVars>>
othersOfSetup == <<dedupVars, retryVars, fetchVars, reconcileVars, objectVars, clientVars, lcsVars,
    icmVars, unloadVars, scheduleVars, optionsVars, switchVars>>
othersOfObjects == <<dedupVars, retryVars, walk, pre, walks, reconcileVars, setupVars,
                     clientVars, lcsVars, icmVars, unloadVars, scheduleVars,
                    optionsVars, switchVars>>
othersOfClient == <<dedupVars, retryVars, fetchVars, reconcileVars, setupVars,
                    objectVars, lcsVars, icmVars, unloadVars, scheduleVars,
                    optionsVars, switchVars>>
othersOfLcs == <<dedupVars, retryVars, fetchVars, reconcileVars, setupVars,
                 objectVars, clientVars, icmVars, unloadVars, scheduleVars,
                    optionsVars, switchVars>>
othersOfIcm == <<dedupVars, retryVars, fetchVars, reconcileVars, setupVars,
                 objectVars, clientVars, lcsVars, unloadVars, scheduleVars,
                    optionsVars, switchVars>>
othersOfUnload == <<dedupVars, retryVars, fetchVars, containers, reconciled,
                    setupVars, objectVars, clientVars, lcsVars, icmVars,
                    scheduleVars, optionsVars, switchVars>>
othersOfSchedule == <<dedupVars, retryVars, fetchVars, reconcileVars, setupVars,
                      objectVars, clientVars, lcsVars, icmVars, unloadVars,
                      optionsVars, switchVars>>
othersOfOptions == <<dedupVars, retryVars, fetchVars, reconcileVars, setupVars,
                     objectVars, clientVars, lcsVars, icmVars, unloadVars,
                     scheduleVars, switchVars>>
othersOfSwitch == <<dedupVars, retryVars, fetchVars, reconcileVars, setupVars,
                    objectVars, clientVars, lcsVars, icmVars, unloadVars,
                    scheduleVars, optionsVars>>

(***************************************************************************)
(* Bounds of the model.                                                    *)
(***************************************************************************)
NumCallers == 2
MaxRetries == 4
MaxId == 2          \* device and session ids are 1..MaxId
MaxPages == 2       \* the server serves at most this many non-empty pages
MaxPageLen == 2     \* records per page
MaxRelays == 1      \* relays listed under one intercom record
MaxTime == 3        \* notified_at timestamps are 1..MaxTime
MaxPagesArg == 2    \* values of the max_pages argument are 0..MaxPagesArg or None
MaxWalks == 2       \* walks per behaviour
MaxPolls == 3       \* reconciler invocations per behaviour
NumCoordinators == 4 \* coordinators of a config entry
MaxSetups == 2      \* attempts to set the config entry up
MaxRefreshes == 3   \* completed walks per behaviour of the record objects
MaxReport == 1      \* records a completed walk reports
MaxRequests == 3    \* requests sent per behaviour of the client
MaxLcsPolls == 4    \* polls of the last-call-session coordinator
MaxProperties == 4  \* properties of an account
MaxDeviceIdLen == 7      \* longest device id typed into the options form
MaxSubmits == 2          \* steps of the options flow in one behaviour
MaxTurnOns == 4          \* turn-on calls of the unlocker switch
MaxTurnOffs == 3         \* turn-off calls of the unlocker switch
MaxUnloads == 2     \* unloads of config entries per behaviour

(***************************************************************************)
(* Exceptions.  CancelledError is the cancellation signal of asyncio; the  *)
(* others stand for any recoverable error of a request.                    *)
(***************************************************************************)
CancelledError == "CancelledError"
InvalidStateError == "InvalidStateError"
UpdateFailed == "UpdateFailed"
Errors == {"PikIntercomException", "KeyError"}

(***************************************************************************)
(*                 _base.py: deduplication of refreshes                    *)
(***************************************************************************)
Callers == 1..NumCallers
\* future_key = (config_entry_id, property_id)
Keys == {<<"entry1", 1>>, <<"entry1", 2>>}
\* Future objects.  A future lives while the dict or a task refers to it, so
\* there are never more live futures than tasks.
FutureIds == 1..NumCallers
NoFuture == 0
FreeFuture == [state |-> "FREE", exc |-> ""]

IdleCaller == [pc |-> "idle", key |-> <<"entry1", 1>>, fut |-> NoFuture,
               out |-> "", cancelled |-> FALSE]

InitDedup ==
    /\ futures = [k \in Keys |-> NoFuture]
    /\ futState = [f \in FutureIds |-> FreeFuture]
    /\ fetchResult = [f \in FutureIds |-> ""]
    /\ caller = [c \in Callers |-> IdleCaller]

\* What `await future` gives once the future is no longer pending.
AwaitOutcome(fs) ==
    IF fs.state = "CANCELLED" THEN CancelledError
    ELSE IF fs.exc # "" THEN fs.exc
    ELSE "ok"

\* `if future_key in futures:`
KeyInFutures(k) == futures[k] # NoFuture

\* `future = hass.loop.create_future()`: a fresh object.
NewFuture == CHOOSE f \in FutureIds :
                 /\ futState[f].state = "FREE"
                 /\ \A g \in FutureIds : futState[g].state = "FREE" => f <= g

\* A task enters async_update_data(hass, config_entry_id, property_id):
\* with the key in the dict it awaits the stored future (which resumes at
\* once when that future is already done), otherwise it creates and stores
\* a future and awaits the API fetch.
CallUpdateData(c, k) ==
    /\ caller[c].pc = "idle"
    /\ IF KeyInFutures(k)
       THEN LET f == futures[k] IN
            /\ caller' = [caller EXCEPT ![c] =
                    IF futState[f].state = "PENDING"
                    THEN [pc |-> "waiting", key |-> k, fut |-> f,
                          out |-> "", cancelled |-> FALSE]
                    ELSE [pc |-> "done", key |-> k, fut |-> f,
                          out |-> AwaitOutcome(futState[f]),
                          cancelled |-> FALSE]]
            /\ UNCHANGED <<futures, futState, fetchResult>>
       ELSE LET f == NewFuture IN
            /\ futState' = [futState EXCEPT ![f] = [state |-> "PENDING", exc |-> ""]]
            /\ fetchResult' = [fetchResult EXCEPT ![f] = "running"]
            /\ futures' = [futures EXCEPT ![k] = f]
            /\ caller' = [caller EXCEPT ![c] =
                    [pc |-> "fetching", key |-> k, fut |-> f,
                     out |-> "", cancelled |-> FALSE]]
    /\ UNCHANGED <<othersOfDedup>>

\* A `finally` clause that leaves the entry in the dict.
DelFutureNever(k) == futures

\* `finally: del futures[future_key]`
DelFuture(k) == [futures EXCEPT ![k] = NoFuture]

\* The owner's `await api_object.async_update_property_intercoms(...)` ends
\* with r: "ok", an error, or CancelledError (the owner's task was cancelled).
\* set_result / set_exception raise InvalidStateError on a future that is not
\* pending; the finally clause runs in every case.
FetchEnds(c, r) ==
    /\ caller[c].pc = "fetching"
    /\ LET f == caller[c].fut
           k == caller[c].key
       IN
       /\ fetchResult' = [fetchResult EXCEPT ![f] = r]
       /\ IF futState[f].state = "PENDING"
          THEN /\ futState' = [futState EXCEPT ![f] =
                      [state |-> "FINISHED", exc |-> IF r = "ok" THEN "" ELSE r]]
               /\ caller' = [caller EXCEPT ![c].pc = "done", ![c].out = r,
                                           ![c].cancelled = (r = CancelledError)]
          ELSE /\ futState' = futState
               /\ caller' = [caller EXCEPT ![c].pc = "done",
                                           ![c].out = InvalidStateError,
                                           ![c].cancelled = (r = CancelledError)]
       /\ futures' = DelFuture(k)
    /\ UNCHANGED <<othersOfDedup>>

FetchSucceeds(c) == FetchEnds(c, "ok")
FetchFails(c) == \E e \in Errors : FetchEnds(c, e)
OwnerCancelled(c) == FetchEnds(c, CancelledError)

\* A waiter resumes from `await futures[future_key]` once the future is done.
WaiterResumes(c) ==
    /\ caller[c].pc = "waiting"
    /\ futState[caller[c].fut].state # "PENDING"
    /\ caller' = [caller EXCEPT ![c].pc = "done",
                                ![c].out = AwaitOutcome(futState[caller[c].fut])]
    /\ UNCHANGED <<futures, futState, fetchResult, othersOfDedup>>

\* The task of a waiter is cancelled: Task.cancel() cancels the future the
\* task is awaiting, which here is the shared future itself.
WaiterCancelled(c) ==
    /\ caller[c].pc = "waiting"
    /\ LET f == caller[c].fut IN
       futState' = IF futState[f].state = "PENDING"
                   THEN [futState EXCEPT ![f] = [state |-> "CANCELLED", exc |-> ""]]
                   ELSE futState
    /\ caller' = [caller EXCEPT ![c].pc = "done", ![c].out = CancelledError,
                                ![c].cancelled = TRUE]
    /\ UNCHANGED <<futures, fetchResult, othersOfDedup>>

\* The call has returned (or raised) to its caller; the task may call again.
\* A future no task and no dict entry refers to any more is gone.
CallReturns(c) ==
    /\ caller[c].pc = "done"
    /\ caller' = [caller EXCEPT ![c] = IdleCaller]
    /\ LET f == caller[c].fut
           live == \/ \E d \in Callers \ {c} : caller[d].pc # "idle" /\ caller[d].fut = f
                   \/ \E k \in Keys : futures[k] = f
       IN
       /\ futState' = IF live THEN futState ELSE [futState EXCEPT ![f] = FreeFuture]
       /\ fetchResult' = IF live THEN fetchResult ELSE [fetchResult EXCEPT ![f] = ""]
    /\ UNCHANGED <<futures, othersOfDedup>>

NextDedup ==
    \/ \E c \in Callers, k \in Keys : CallUpdateData(c, k)
    \/ \E c \in Callers : FetchSucceeds(c)
    \/ \E c \in Callers : FetchFails(c)
    \/ \E c \in Callers : OwnerCancelled(c)
    \/ \E c \in Callers : WaiterResumes(c)
    \/ \E c \in Callers : WaiterCancelled(c)
    \/ \E c \in Callers : CallReturns(c)

(***************************************************************************)
(*            entity.py: BasePikUpdateCoordinator retry loop               *)
(***************************************************************************)
\* `retries: int = 3`
DefaultRetries == 3
\* `await asyncio.sleep(2)`
RetryPause == 2

IdleUpdate == [pc |-> "idle", retries |-> DefaultRetries, i |-> 0, calls |-> 0,
               slept |-> 0, log |-> << >>, raised |-> "", cause |-> ""]

InitRetry == upd = IdleUpdate

\* DataUpdateCoordinator starts _async_update_data: `for i in range(retries)`
\* enters its first iteration and awaits _async_update_internal().
UpdateStarts(n) ==
    /\ upd.pc = "idle"
    /\ upd' = [IdleUpdate EXCEPT !.pc = "fetching", !.retries = n, !.calls = 1,
                                 !.log = <<"call">>]
    /\ UNCHANGED <<othersOfRetry>>

\* The handler without its `except asyncio.CancelledError: raise` clause.
ReraisedNever(exc) == FALSE

\* `except asyncio.CancelledError: raise`
Reraised(exc) == exc = CancelledError

\* The last-attempt test off by one, either way.
LastAttemptEarly(i, retries) == i + 2 >= retries
LastAttemptLate(i, retries) == i = retries

\* `if (i + 1) == self.update_retries: raise UpdateFailed(msg) from exc`
LastAttempt(i, retries) == i + 1 = retries

\* `return await self._async_update_internal()`
AttemptSucceeds ==
    /\ upd.pc = "fetching"
    /\ upd' = [upd EXCEPT !.pc = "returned", !.log = Append(@, "ok")]
    /\ UNCHANGED <<othersOfRetry>>

\* The awaited fetch raises exc.
AttemptRaises(exc) ==
    /\ upd.pc = "fetching"
    /\ upd' = IF Reraised(exc)
              THEN [upd EXCEPT !.pc = "cancelled", !.raised = exc,
                               !.log = Append(@, exc)]
              ELSE IF LastAttempt(upd.i, upd.retries)
              THEN [upd EXCEPT !.pc = "failed", !.raised = UpdateFailed,
                               !.cause = exc, !.log = Append(@, exc)]
              ELSE [upd EXCEPT !.pc = "sleeping", !.cause = exc,
                               !.log = Append(@, exc)]
    /\ UNCHANGED <<othersOfRetry>>

AttemptFails == \E e \in Errors : AttemptRaises(e)
AttemptCancelled == AttemptRaises(CancelledError)

\* `await asyncio.sleep(2)` returns and the loop takes the next i: it awaits
\* _async_update_internal() again, or, with range(retries) exhausted, the
\* function ends and returns None.
SleepEnds ==
    /\ upd.pc = "sleeping"
    /\ upd' = IF upd.i + 1 < upd.retries
              THEN [upd EXCEPT !.pc = "fetching", !.i = @ + 1, !.calls = @ + 1,
                               !.slept = @ + RetryPause,
                               !.log = @ \o <<"sleep", "call">>]
              ELSE [upd EXCEPT !.pc = "returned", !.slept = @ + RetryPause,
                               !.log = Append(@, "sleep")]
    /\ UNCHANGED <<othersOfRetry>>

\* The task is cancelled during the sleep: the CancelledError is raised
\* inside the `except BaseException` handler and leaves the function.
SleepCancelled ==
    /\ upd.pc = "sleeping"
    /\ upd' = [upd EXCEPT !.pc = "cancelled", !.raised = CancelledError,
                          !.log = Append(@, CancelledError)]
    /\ UNCHANGED <<othersOfRetry>>

\* The update is over; the next tick or manual refresh may start another.
UpdateEnds ==
    /\ upd.pc \in {"returned", "failed", "cancelled"}
    /\ upd' = IdleUpdate
    /\ UNCHANGED <<othersOfRetry>>

NextRetry ==
    \/ \E n \in 1..MaxRetries : UpdateStarts(n)
    \/ AttemptSucceeds
    \/ AttemptFails
    \/ AttemptCancelled
    \/ SleepEnds
    \/ SleepCancelled
    \/ UpdateEnds

(***************************************************************************)
(*                 api.py: the paginated collection fetchers               *)
(*                                                                         *)
(* A walk is one call of async_update_property_intercoms,                  *)
(* async_update_iot_intercoms, async_update_iot_cameras,                   *)
(* async_update_iot_meters or async_update_call_sessions.  The code runs   *)
(* without suspension between two requests, so the records of a page are   *)
(* taken one after the other with nothing else in between.                 *)
(***************************************************************************)
Ids == 1..MaxId
Names == {"a", "b"}
Times == 1..MaxTime
Digits == <<"1", "2", "3", "4", "5">>
\* The "id" values of a response: numbers, and one value int() rejects.
RawIds == {Digits[i] : i \in Ids} \cup {"x"}
NotInt == -1
\* `int(data["id"])`, NotInt standing for the TypeError / ValueError.
ParseInt(raw) ==
    IF \E i \in Ids : Digits[i] = raw
    THEN CHOOSE i \in Ids : Digits[i] = raw
    ELSE NotInt

NoRecord == [absent |-> TRUE]
EmptyMap == [i \in Ids |-> NoRecord]
KeysOf(m) == {i \in Ids : m[i] # NoRecord}

CollectionKinds == {"property_intercoms", "iot_intercoms", "iot_cameras", "iot_meters"}
Kinds == CollectionKinds \cup {"call_sessions"}

\* `max_pages: Optional[int] = 10`
NoLimit == -1
MaxPagesValues == (0..MaxPagesArg) \cup {NoLimit}

RelayItems == [id : RawIds, name : Names]
RelayLists == UNION {[1..n -> RelayItems] : n \in 0..MaxRelays}
SimpleItems == [id : RawIds, name : Names]
IntercomItems == [id : RawIds, name : Names, relays : RelayLists]
SessionItems == [id : Ids, notified_at : Times]
ItemsOf(kind) ==
    IF kind = "iot_intercoms" THEN IntercomItems
    ELSE IF kind = "call_sessions" THEN SessionItems
    ELSE SimpleItems

EmptyApi == [devices |-> EmptyMap, iot_intercoms |-> EmptyMap,
             iot_relays |-> EmptyMap, iot_cameras |-> EmptyMap,
             iot_meters |-> EmptyMap, call_sessions |-> << >>]

NoSession == 0
IdleWalk == [kind |-> "none", status |-> "idle", page_number |-> 0,
             in_page |-> 0, found |-> {}, found_relays |-> {},
             max_pages |-> NoLimit, last_call_session |-> NoSession,
             requires_further_updates |-> TRUE,
             \* history of the walk
             requests |-> << >>, responses |-> << >>, processed |-> 0,
             T0 |-> 0, fetched |-> {}, older_seen |-> FALSE,
             bad_id_seen |-> FALSE]

InitFetch ==
    /\ api = EmptyApi
    /\ walk = IdleWalk
    /\ pre = EmptyApi
    /\ walks = 0

\* ------------------------------------------------------------ call sessions
HasSession(cs, id) == \E j \in 1..Len(cs) : cs[j].id = id
IndexOfSession(cs, id) == CHOOSE j \in 1..Len(cs) : cs[j].id = id
NotifiedAt(cs, id) == cs[IndexOfSession(cs, id)].notified_at

\* A property that returns the session cached first.
LastCallSessionFirst(cs) == IF Len(cs) = 0 THEN NoSession ELSE cs[1].id

\* `sorted(values, key=notified_at, reverse=True)` is stable: of the sessions
\* with the greatest notified_at the first in dict (insertion) order is first.
\* The property returns that session object, here its id, or None.
LastCallSession(cs) ==
    IF Len(cs) = 0 THEN NoSession
    ELSE LET j == CHOOSE j \in 1..Len(cs) :
                      /\ \A m \in 1..Len(cs) : cs[m].notified_at <= cs[j].notified_at
                      /\ \A m \in 1..(j - 1) : cs[m].notified_at < cs[j].notified_at
         IN cs[j].id

\* `last_call_session.notified_at > notified_at`, written the other way round.
WatermarkReversed(last_notified_at, notified_at) == last_notified_at < notified_at

\* `last_call_session.notified_at > notified_at`
WatermarkReached(last_notified_at, notified_at) == last_notified_at > notified_at

\* `if requires_further_updates and last_call_session and
\*      last_call_session.notified_at > notified_at:`
\* last_call_session is the cached object itself, so its notified_at is read
\* as it is now.
StopsPaging(cs, w, notified_at) ==
    /\ w.requires_further_updates
    /\ w.last_call_session # NoSession
    /\ WatermarkReached(NotifiedAt(cs, w.last_call_session), notified_at)

\* `if call_session_id not in call_sessions: ... = PikCallSession(...)`
\* `else: call_session.notified_at = notified_at ...`
UpsertSession(cs, item) ==
    IF HasSession(cs, item.id)
    THEN [cs EXCEPT ![IndexOfSession(cs, item.id)].notified_at = item.notified_at]
    ELSE Append(cs, [id |-> item.id, notified_at |-> item.notified_at])

\* `while requires_further_updates and (max_pages is None or page_number < max_pages):`
SessionLoopContinues(w) ==
    /\ w.requires_further_updates
    /\ (w.max_pages = NoLimit \/ w.page_number < w.max_pages)

\* ------------------------------------------------------------- collections
\* `try: x = m[id]  except KeyError: x = Cls(api=self, id=id); m[id] = x`
GetOrCreate(m, id, fresh) == IF m[id] = NoRecord THEN fresh ELSE m[id]

\* The relay loop of async_update_iot_intercoms over one record's "relays":
\* the relay collection and found_relays after it.
RECURSIVE UpsertRelays(_, _, _)
UpsertRelays(relays, found_relays, relay_list) ==
    IF Len(relay_list) = 0
    THEN [relays |-> relays, found_relays |-> found_relays]
    ELSE LET relay_data == Head(relay_list)
             relay_id == ParseInt(relay_data.id)
         IN IF relay_id = NotInt
            THEN UpsertRelays(relays, found_relays, Tail(relay_list))
            ELSE UpsertRelays(
                     [relays EXCEPT ![relay_id] =
                         [GetOrCreate(relays, relay_id, [name |-> ""])
                             EXCEPT !.name = relay_data.name]],
                     found_relays \cup {relay_id},
                     Tail(relay_list))

\* The body of the `for ... in resp_data` loop for one record of the page:
\* the collections after it.
UpsertItem(a, kind, item) ==
    LET id == ParseInt(item.id) IN
    IF id = NotInt THEN a
    ELSE IF kind = "property_intercoms"
    THEN [a EXCEPT !.devices[id] =
             [GetOrCreate(a.devices, id, [name |-> ""]) EXCEPT !.name = item.name]]
    ELSE IF kind = "iot_intercoms"
    THEN \* intercom.relays.clear() is followed by no append
         [a EXCEPT !.iot_intercoms[id] =
                [GetOrCreate(a.iot_intercoms, id, [name |-> "", relays |-> << >>])
                    EXCEPT !.name = item.name, !.relays = << >>],
                   !.iot_relays = UpsertRelays(a.iot_relays, {}, item.relays).relays]
    ELSE IF kind = "iot_cameras"
    THEN [a EXCEPT !.iot_cameras[id] =
             [GetOrCreate(a.iot_cameras, id, [name |-> ""]) EXCEPT !.name = item.name]]
    ELSE [a EXCEPT !.iot_meters[id] =
             [GetOrCreate(a.iot_meters, id, [name |-> ""]) EXCEPT !.name = item.name]]

\* `except (TypeError, ValueError): continue`, and in async_update_iot_cameras
\* `except (TypeError, ValueError): return`.
ReturnsOnBadId(kind) == kind = "iot_cameras"

\* `for key in m.keys() - found: del m[key]`
DeleteObsolete(m, found) == [i \in Ids |-> IF i \in found THEN m[i] ELSE NoRecord]

\* "Clean up obsolete data" after the loop.  async_update_property_intercoms
\* has no such step; async_update_iot_cameras runs it on `cameras`, which it
\* has bound to self._iot_meters.
CleanUp(a, w) ==
    IF w.kind = "iot_intercoms"
    THEN [a EXCEPT !.iot_intercoms = DeleteObsolete(@, w.found),
                   !.iot_relays = DeleteObsolete(@, w.found_relays)]
    ELSE IF w.kind = "iot_cameras"
    THEN [a EXCEPT !.iot_meters = DeleteObsolete(@, w.found)]
    ELSE IF w.kind = "iot_meters"
    THEN [a EXCEPT !.iot_meters = DeleteObsolete(@, w.found)]
    ELSE a

\* A failed request that runs the clean-up on its way out (a `finally:`).
AfterRequestErrorCleansUp(a, w) == CleanUp(a, w)

\* The collections after a failed request: the exception leaves the function
\* at the `await`, the code after the loop does not run.
AfterRequestError(a, w) == a

\* A loop that counts the first page only.
NextPageSame(page_number) == IF page_number = 0 THEN 1 ELSE page_number

\* `page_number += 1`
NextPage(page_number) == page_number + 1

\* `page_number += 1` and `await self._async_get(..., params={"page": page_number})`
RequestPage(w) ==
    [w EXCEPT !.status = "requesting",
              !.page_number = NextPage(w.page_number),
              !.in_page = 0,
              !.requests = Append(@, NextPage(w.page_number))]

\* A fetcher is called.  The collection fetchers enter `while True`; the
\* call-session fetcher reads last_call_session and tests its loop condition.
StartFetch(kind, max_pages) ==
    /\ walk.status \in {"idle", "done", "failed", "returned"}
    /\ walks < MaxWalks
    /\ walks' = walks + 1
    /\ pre' = api
    /\ api' = api
    /\ LET lcs == LastCallSession(api.call_sessions)
           w == IF kind = "call_sessions"
                THEN [IdleWalk EXCEPT
                         !.kind = kind, !.max_pages = max_pages,
                         !.last_call_session = lcs,
                         !.T0 = IF lcs = NoSession THEN 0
                                ELSE NotifiedAt(api.call_sessions, lcs)]
                ELSE [IdleWalk EXCEPT !.kind = kind]
       IN walk' = IF kind = "call_sessions" /\ ~SessionLoopContinues(w)
                  THEN [w EXCEPT !.status = "done"]
                  ELSE RequestPage(w)
    /\ UNCHANGED <<othersOfFetch>>

\* The request raises (status, decoding, timeout, transport, error envelope).
ResponseFails ==
    /\ walk.status = "requesting"
    /\ walk' = [walk EXCEPT !.status = "failed", !.responses = Append(@, "fail")]
    /\ api' = AfterRequestError(api, walk)
    /\ UNCHANGED <<pre, walks, othersOfFetch>>

\* `if not resp_data: break`, then the code after the loop.
ResponseEmpty ==
    /\ walk.status = "requesting"
    /\ walk' = [walk EXCEPT !.status = "done", !.responses = Append(@, "empty")]
    /\ api' = CleanUp(api, walk)
    /\ UNCHANGED <<pre, walks, othersOfFetch>>

\* The next record of a non-empty page goes through the loop body.
ResponseItem(item) ==
    /\ walk.status \in {"requesting", "processing"}
    /\ walk.page_number <= MaxPages
    /\ walk.in_page < MaxPageLen
    /\ LET w == [walk EXCEPT
                    !.status = "processing",
                    !.in_page = @ + 1,
                    !.processed = @ + 1,
                    !.responses = IF walk.status = "requesting"
                                  THEN Append(@, "items") ELSE @]
       IN
       IF walk.kind = "call_sessions"
       THEN /\ walk' = [w EXCEPT
                    !.requires_further_updates =
                        @ /\ ~StopsPaging(api.call_sessions, walk, item.notified_at),
                    !.fetched = @ \cup {[page |-> walk.page_number, id |-> item.id,
                                          notified_at |-> item.notified_at]},
                    !.older_seen = @ \/
                        (walk.last_call_session # NoSession /\
                         item.notified_at <
                             NotifiedAt(api.call_sessions, walk.last_call_session))]
            /\ api' = [api EXCEPT !.call_sessions = UpsertSession(@, item)]
       ELSE LET id == ParseInt(item.id) IN
            IF id = NotInt
            THEN /\ walk' = IF ReturnsOnBadId(walk.kind)
                            THEN [w EXCEPT !.status = "returned",
                                           !.bad_id_seen = TRUE]
                            ELSE [w EXCEPT !.bad_id_seen = TRUE]
                 /\ api' = api
            ELSE /\ walk' = [w EXCEPT
                        !.found = @ \cup {id},
                        !.found_relays =
                            IF walk.kind = "iot_intercoms"
                            THEN UpsertRelays(api.iot_relays, @, item.relays).found_relays
                            ELSE @]
                 /\ api' = UpsertItem(api, walk.kind, item)
    /\ UNCHANGED <<pre, walks, othersOfFetch>>

\* The page is through: back to the loop head.
PageEnds ==
    /\ walk.status = "processing"
    /\ walk' = IF walk.kind = "call_sessions" /\ ~SessionLoopContinues(walk)
               THEN [walk EXCEPT !.status = "done"]
               ELSE RequestPage(walk)
    /\ UNCHANGED <<api, pre, walks, othersOfFetch>>

NextFetch ==
    \/ \E kind \in CollectionKinds : StartFetch(kind, NoLimit)
    \/ \E max_pages \in MaxPagesValues : StartFetch("call_sessions", max_pages)
    \/ ResponseFails
    \/ ResponseEmpty
    \/ \E item \in ItemsOf(walk.kind) : ResponseItem(item)
    \/ PageEnds

(***************************************************************************)
(*                 Properties of the deduplication (_base.py)              *)
(***************************************************************************)
\* C1: refresh calls for the same key that overlap a running fetch issue no
\* second fetch, and every caller that was not itself cancelled ends with
\* the outcome of that fetch: all return normally when it succeeded, all
\* raise its exception when it failed.
C1_OneFetchSameOutcome ==
    /\ \A k \in Keys :
          Cardinality({c \in Callers : caller[c].pc = "fetching"
                                       /\ caller[c].key = k}) <= 1
    /\ \A c \in Callers :
          (caller[c].pc = "done" /\ ~caller[c].cancelled)
              => caller[c].out = fetchResult[caller[c].fut]

(***************************************************************************)
(*                Properties of the retry loop (entity.py)                 *)
(***************************************************************************)
NumErrors(log) == Len(SelectSeq(log, LAMBDA x : x \in Errors))
Last(log) == log[Len(log)]
\* Every attempt but the first directly follows a pause, and every pause
\* directly follows a failed attempt.
PausedBetweenAttempts(log) ==
    \A j \in 1..Len(log) :
        /\ (log[j] = "call" /\ j > 1) => log[j - 1] = "sleep"
        /\ log[j] = "sleep" => (j > 1 /\ log[j - 1] \in Errors)

\* C2: with the default retry count of 3, an update whose fetch fails on the
\* first two attempts and succeeds on the third returns the result, raises
\* no UpdateFailed, has invoked the fetch exactly 3 times and has paused 2 s
\* between consecutive attempts.
C2_FailTwiceThenSucceed ==
    upd.retries = DefaultRetries =>
        /\ NumErrors(upd.log) <= 2 => upd.raised # UpdateFailed
        /\ (NumErrors(upd.log) = 2 /\ Last(upd.log) = "ok") =>
              /\ upd.pc = "returned"
              /\ upd.raised = ""
              /\ upd.calls = 3
              /\ upd.slept = 2 * RetryPause
              /\ Len(upd.log) = 8
              /\ PausedBetweenAttempts(upd.log)

C2_Witness ==
    /\ upd.pc = "returned"
    /\ upd.retries = DefaultRetries
    /\ NumErrors(upd.log) = 2
    /\ upd.calls = 3

\* C3: the fetch is never invoked more than N times; a fetch that fails on
\* every attempt is invoked exactly N times, after which the update has
\* raised UpdateFailed carrying the last attempt's error, and nothing (no
\* attempt, no pause) follows the last failure.
C3_RetriesExhausted ==
    /\ upd.calls <= upd.retries
    /\ (upd.pc # "idle" /\ NumErrors(upd.log) = upd.retries) =>
          /\ upd.pc = "failed"
          /\ Last(upd.log) \in Errors
    /\ upd.pc = "failed" =>
          /\ upd.raised = UpdateFailed
          /\ upd.calls = upd.retries
          /\ NumErrors(upd.log) = upd.retries
          /\ upd.cause = Last(upd.log)
          /\ upd.slept = (upd.retries - 1) * RetryPause
          /\ PausedBetweenAttempts(upd.log)

C3_Witness ==
    /\ upd.pc = "failed"
    /\ upd.retries = DefaultRetries
    /\ upd.calls = DefaultRetries
    /\ upd.log[2] # upd.cause

\* C4: a cancellation received while an attempt is running or during the
\* pause between attempts leaves the update at once as a cancellation: it
\* is the last thing that happened, no attempt follows it, and it is not
\* turned into UpdateFailed nor swallowed.
C4_CancellationPropagates ==
    (\E j \in 1..Len(upd.log) : upd.log[j] = CancelledError) =>
        /\ upd.pc = "cancelled"
        /\ upd.raised = CancelledError
        /\ Last(upd.log) = CancelledError
        /\ \A j \in 1..(Len(upd.log) - 1) : upd.log[j] # CancelledError

\* A cancellation during the second attempt, and one during a pause.
C4_Witness ==
    /\ upd.pc = "cancelled"
    /\ upd.calls = 2
    /\ upd.log[Len(upd.log) - 1] = "call"

C4_WitnessSleep ==
    /\ upd.pc = "cancelled"
    /\ Len(upd.log) >= 2
    /\ upd.log[Len(upd.log) - 1] \in Errors

(***************************************************************************)
(* entity.py: async_add_entities_iteration, async_add_entities_with_listener*)
(*                                                                         *)
(* sensor.py sets the reconciler up once per coordinator of a config       *)
(* entry.  The registry it consults is hass.data[DATA_ENTITIES][cls]: one  *)
(* dictionary per entity class for the whole Home Assistant instance.  The *)
(* model follows one entity class (PikIotMeterSensor) over two config      *)
(* entries; the container of an entry is its API object's iot_meters.      *)
(***************************************************************************)
Entries == {"entry1", "entry2"}
\* METER_ENTITY_DESCRIPTIONS: the keys of the entity descriptions.
DescriptionKeys == {"total", "month"}
\* key = (item_id, entity_description.key)
RegKeys == Ids \X DescriptionKeys
NoWrapper == "none"
\* A wrapper is known by the coordinator (config entry) it was built with;
\* NoWrapper: the key is not in the dictionary.

NoInvocation == [invoked |-> FALSE, entry |-> "entry1", container |-> {},
                 before |-> [k \in RegKeys |-> NoWrapper],
                 created |-> {}, called |-> FALSE]

InitReconcile ==
    /\ containers = [e \in Entries |-> {}]
    /\ entities = [k \in RegKeys |-> NoWrapper]
    /\ listeners = {}
    /\ reconciled = [polls |-> 0,
                     created |-> [k \in RegKeys |-> 0],
                     passed |-> [k \in RegKeys |-> 0],
                     add_calls |-> 0,
                     seen |-> {},
                     last |-> NoInvocation]

\* A registry that accepts every key again.
AlreadyRegisteredNever(ents, key) == FALSE

\* `if key in entities: continue`
AlreadyRegistered(ents, key) == ents[key] # NoWrapper

\* item_checker: the default `lambda x: True`; no caller passes another.
ItemChecker(item_id) == TRUE

\* The keys the two loops of an invocation create a wrapper for: every
\* (item_id, description key) of the container that item_checker lets
\* through and that is not in the registry.
NewEntities(ents, container) ==
    {key \in RegKeys : /\ key[1] \in container
                       /\ ItemChecker(key[1])
                       /\ ~AlreadyRegistered(ents, key)}

\* One run of async_add_entities_iteration for the coordinator of entry e
\* over the container ids `container`.
Iteration(e, container) ==
    LET new_entities == NewEntities(entities, container)
    IN  /\ entities' = [k \in RegKeys |->
                           IF k \in new_entities THEN e ELSE entities[k]]
        /\ reconciled' =
              [reconciled EXCEPT
                  !.polls = @ + 1,
                  !.created = [k \in RegKeys |->
                                  IF k \in new_entities THEN @[k] + 1 ELSE @[k]],
                  \* `if new_entities: async_add_entities(new_entities)`
                  !.passed = [k \in RegKeys |->
                                 IF k \in new_entities THEN @[k] + 1 ELSE @[k]],
                  !.add_calls = IF new_entities # {} THEN @ + 1 ELSE @,
                  !.seen = @ \cup {k \in RegKeys : k[1] \in container},
                  !.last = [invoked |-> TRUE, entry |-> e,
                            container |-> container, before |-> entities,
                            created |-> new_entities,
                            called |-> new_entities # {}]]

\* async_add_entities_with_listener: the initial call, then the listener.
AddEntitiesWithListener(e) ==
    /\ e \notin listeners
    /\ reconciled.polls < MaxPolls
    /\ Iteration(e, containers[e])
    /\ listeners' = listeners \cup {e}
    /\ UNCHANGED <<containers, othersOfReconcile>>

\* A coordinator update: the poll leaves the ids `ids` in the container,
\* then the coordinator calls its listeners.
CoordinatorUpdate(e, ids) ==
    /\ e \in listeners
    /\ reconciled.polls < MaxPolls
    /\ containers' = [containers EXCEPT ![e] = ids]
    /\ Iteration(e, ids)
    /\ UNCHANGED <<listeners, othersOfReconcile>>

\* The first refresh of the coordinator, before the platform is set up.
FirstRefresh(e, ids) ==
    /\ e \notin listeners
    /\ containers[e] = {}
    /\ ids # {}
    /\ containers' = [containers EXCEPT ![e] = ids]
    /\ UNCHANGED <<entities, listeners, reconciled, othersOfReconcile>>

NextReconcile ==
    \/ \E e \in Entries : AddEntitiesWithListener(e)
    \/ \E e \in Entries, ids \in SUBSET Ids : CoordinatorUpdate(e, ids)
    \/ \E e \in Entries, ids \in SUBSET Ids : FirstRefresh(e, ids)

(***************************************************************************)
(* __init__.py: async_setup_entry, the joint first refresh                 *)
(***************************************************************************)
\* coordinators: the last-call-session coordinator, the three IoT
\* coordinators and the ICM coordinators the options enable.
Coordinators == 1..NumCoordinators
\* How a call of the client library ends: it returns, or raises an
\* exception; an aiohttp.ClientResponseError carries the HTTP status.
Returns == [exc |-> "none", status |-> 0]
Raises(exc) == [exc |-> exc, status |-> 0]
ResponseErrorStatuses == {399, 400, 499, 500}
AuthenticateOutcomes ==
    {Returns, Raises("PikIntercomException"), Raises("TimeoutError")}
    \cup {[exc |-> "ClientResponseError", status |-> n] :
             n \in ResponseErrorStatuses}
CustomerDeviceOutcomes ==
    {Returns, Raises("PikIntercomException"), Raises("TimeoutError")}

IdleSetup == [pc |-> "idle", attempts |-> 0, inspected |-> 1,
              stored |-> FALSE, forwarded |-> FALSE,
              \* how authenticate() and update_customer_device() ended in
              \* the last attempt, and what async_setup_entry raised
              signin |-> Returns, device |-> Returns, raised |-> "none"]

InitSetup ==
    /\ tasks = [c \in Coordinators |-> "none"]
    /\ setup = IdleSetup

\* done, pending of asyncio.wait
Done(ts) == {c \in Coordinators : ts[c] \in {"ok", "failed"}}
Pending(ts) == {c \in Coordinators : ts[c] = "pending"}

\* return_when=FIRST_EXCEPTION: some task raised, or every task is done.
WaitOver(ts) ==
    \/ \E c \in Coordinators : ts[c] = "failed"
    \/ Pending(ts) = {}

\* `next(iter(done))`: done is a set, whose iteration order is not defined;
\* any of its members can come first.
FirstOfDone(ts) == Done(ts)

\* async_get_authenticated_api: what the `try` around authenticate() makes
\* of its outcome.
\*   except aiohttp.ClientResponseError as exc:
\*       if not (400 <= exc.status < 500): raise
\*       raise ConfigEntryAuthFailed(str(exc)) from exc
\*   except PikIntercomException as exc:
\*       raise ConfigEntryAuthFailed(str(exc)) from exc
GetAuthenticatedApi(signin) ==
    IF signin = Returns THEN "none"
    ELSE IF signin.exc = "ClientResponseError"
    THEN IF 400 <= signin.status /\ signin.status < 500
         THEN "ConfigEntryAuthFailed" ELSE signin.exc
    ELSE IF signin.exc = "PikIntercomException" THEN "ConfigEntryAuthFailed"
    ELSE signin.exc

\* `try: await api_object.update_customer_device()
\*  except PikIntercomException as exc: raise ConfigEntryAuthFailed(msg)`
UpdateCustomerDevice(device) ==
    IF device = Returns THEN "none"
    ELSE IF device.exc = "PikIntercomException" THEN "ConfigEntryAuthFailed"
    ELSE device.exc

\* What async_setup_entry raises before it creates the coordinators.
RaisedBeforeRefresh(signin, device) ==
    IF GetAuthenticatedApi(signin) # "none" THEN GetAuthenticatedApi(signin)
    ELSE UpdateCustomerDevice(device)

\* async_setup_entry up to `await asyncio.wait(...)`: the client is
\* authenticated, the customer device is fetched, and one task per
\* coordinator is created, all together.  An exception of the first two
\* steps ends the attempt.
SetupStarts(signin, device) ==
    /\ setup.pc \in {"idle", "not_ready", "raised"}
    /\ setup.attempts < MaxSetups
    /\ device # Returns => signin = Returns
    /\ LET raised == RaisedBeforeRefresh(signin, device)
           s == [setup EXCEPT !.attempts = @ + 1, !.signin = signin,
                              !.device = device, !.raised = raised]
       IN IF raised # "none"
          THEN /\ tasks' = [c \in Coordinators |-> "none"]
               /\ setup' = [s EXCEPT !.pc = "raised"]
          ELSE /\ tasks' = [c \in Coordinators |-> "pending"]
               /\ setup' = [s EXCEPT !.pc = "waiting"]
    /\ UNCHANGED <<othersOfSetup>>

\* coordinator.async_config_entry_first_refresh() returns.
RefreshSucceeds(c) ==
    /\ setup.pc = "waiting"
    /\ tasks[c] = "pending"
    /\ tasks' = [tasks EXCEPT ![c] = "ok"]
    /\ UNCHANGED <<setup, othersOfSetup>>

\* coordinator.async_config_entry_first_refresh() raises.
RefreshFails(c) ==
    /\ setup.pc = "waiting"
    /\ tasks[c] = "pending"
    /\ tasks' = [tasks EXCEPT ![c] = "failed"]
    /\ UNCHANGED <<setup, othersOfSetup>>

\* asyncio.wait returns; the rest of async_setup_entry: the pending tasks
\* are cancelled, the first task of `done` is inspected, and either
\* ConfigEntryNotReady is raised or the coordinators are stored and the
\* platforms forwarded.
WaitReturns(c) ==
    /\ setup.pc = "waiting"
    /\ WaitOver(tasks)
    /\ c \in FirstOfDone(tasks)
    /\ tasks' = [t \in Coordinators |->
                    IF tasks[t] = "pending" THEN "cancelled" ELSE tasks[t]]
    /\ setup' = IF tasks[c] = "failed"
                THEN [setup EXCEPT !.pc = "not_ready", !.inspected = c,
                                   !.raised = "ConfigEntryNotReady"]
                ELSE [setup EXCEPT !.pc = "loaded", !.inspected = c,
                                   !.stored = TRUE, !.forwarded = TRUE]
    /\ UNCHANGED <<othersOfSetup>>

NextSetup ==
    \/ \E signin \in AuthenticateOutcomes, device \in CustomerDeviceOutcomes :
          SetupStarts(signin, device)
    \/ \E c \in Coordinators : RefreshSucceeds(c)
    \/ \E c \in Coordinators : RefreshFails(c)
    \/ \E c \in Coordinators : WaitReturns(c)

(***************************************************************************)
(*              Properties of the collection fetchers (api.py)             *)
(***************************************************************************)
CollectionNames == {"devices", "iot_intercoms", "iot_relays", "iot_cameras",
                    "iot_meters"}
\* The collection a fetch operation is for.
CollectionOf(kind) ==
    IF kind = "property_intercoms" THEN "devices"
    ELSE IF kind = "iot_intercoms" THEN "iot_intercoms"
    ELSE IF kind = "iot_cameras" THEN "iot_cameras"
    ELSE "iot_meters"
OwnedBy(kind) ==
    IF kind = "iot_intercoms" THEN {"iot_intercoms", "iot_relays"}
    ELSE IF kind \in CollectionKinds THEN {CollectionOf(kind)}
    ELSE {}
\* The ids the pages processed so far reported for collection o.
SeenIn(o) ==
    IF o = "iot_relays" /\ walk.kind = "iot_intercoms" THEN walk.found_relays
    ELSE IF walk.kind \in CollectionKinds /\ o = CollectionOf(walk.kind) THEN walk.found
    ELSE {}
Finished == walk.status \in {"done", "returned"}

\* C5: after every collection fetch that completes successfully, the key
\* set of its collection (and, for the IoT intercoms fetch, of the relay
\* collection) equals the set of ids seen in the page walk just completed,
\* and no entry of any other collection has been removed.
C5_KeysAreLastWalk ==
    (Finished /\ walk.kind \in CollectionKinds) =>
        /\ \A o \in OwnedBy(walk.kind) : KeysOf(api[o]) = SeenIn(o)
        /\ \A o \in CollectionNames \ OwnedBy(walk.kind) :
              KeysOf(pre[o]) \subseteq KeysOf(api[o])

\* C6 as stated: when the request for a page fails, the cached collections
\* are exactly what they were before the fetch started.
C6_FailedWalkLeavesCacheIntact ==
    walk.status = "failed" => api = pre

\* C6 as amended: when the request for a page fails, the fetch aborts before
\* the clean-up: no record has been removed, and every record whose id was
\* not on a page already processed is what it was before the fetch started.
C6_FailedWalkRemovesNothing ==
    walk.status = "failed" =>
        /\ \A o \in CollectionNames : \A i \in Ids :
              /\ pre[o][i] # NoRecord => api[o][i] # NoRecord
              /\ i \notin SeenIn(o) => api[o][i] = pre[o][i]
        /\ Len(pre.call_sessions) <= Len(api.call_sessions)
        /\ \A j \in 1..Len(pre.call_sessions) :
              /\ api.call_sessions[j].id = pre.call_sessions[j].id
              /\ (\A f \in walk.fetched : f.id # pre.call_sessions[j].id)
                    => api.call_sessions[j] = pre.call_sessions[j]

\* The second page failed after the first had changed the cache.
C6_Witness ==
    /\ walk.status = "failed"
    /\ walk.kind \in CollectionKinds
    /\ walk.page_number = 2
    /\ api # pre

\* The parts of C7 that hold as stated: pages are requested as 1, 2, 3, ...;
\* an empty page ends the loop; the call-session loop requests at most
\* max_pages pages; a first page that is empty makes exactly one request and
\* no record.
PagesInOrder ==
    /\ \A j \in 1..Len(walk.requests) : walk.requests[j] = j
    /\ Len(walk.requests) = walk.page_number
    /\ \A j \in 1..Len(walk.responses) :
          walk.responses[j] # "items" =>
              (j = Len(walk.requests) /\ walk.status \in {"done", "failed"})
    /\ walk.max_pages # NoLimit => Len(walk.requests) <= walk.max_pages
    /\ (Len(walk.responses) >= 1 /\ walk.responses[1] = "empty") =>
          (Len(walk.requests) = 1 /\ walk.processed = 0 /\ walk.status = "done")
EndedOnNonEmptyPage ==
    /\ Finished
    /\ Len(walk.responses) >= 1
    /\ walk.responses[Len(walk.responses)] = "items"

\* C7 as stated: every pagination loop ends as soon as a page is empty, the
\* call-session loop also once max_pages pages have been requested, and every
\* other non-empty page is followed by the request for the next page.
C7_EveryNonEmptyPageFollowed ==
    /\ PagesInOrder
    /\ EndedOnNonEmptyPage =>
          (walk.kind = "call_sessions" /\ Len(walk.requests) = walk.max_pages)

\* C7 as amended: as stated, except that a non-empty page is the last one
\* also when the call-session loop met a session older than the newest
\* cached one on it, and when the camera loop met a non-numeric id on it.
C7_Pagination ==
    /\ PagesInOrder
    /\ EndedOnNonEmptyPage =>
          \/ (walk.kind = "call_sessions" /\ Len(walk.requests) = walk.max_pages)
          \/ (walk.kind = "call_sessions" /\ walk.older_seen)
          \/ (walk.kind = "iot_cameras" /\ walk.bad_id_seen)

\* Two non-empty pages, then the empty page that ends the loop.
C7_Witness ==
    /\ walk.status = "done"
    /\ walk.kind = "iot_intercoms"
    /\ walk.requests = <<1, 2, 3>>
    /\ walk.responses = <<"items", "items", "empty">>

C8_WitnessEqual ==
    /\ walk.kind = "call_sessions"
    /\ walk.page_number = 2
    /\ \E f \in walk.fetched : f.page = 1 /\ f.notified_at = walk.T0
    /\ \A f \in walk.fetched : f.notified_at >= walk.T0

(***************************************************************************)
(*                 Properties of the reconciler (entity.py)                *)
(***************************************************************************)
\* The combinations the last invocation met in its container that had no
\* wrapper in the registry when it started.
NewCombinations ==
    {k \in RegKeys : /\ k[1] \in reconciled.last.container
                     /\ reconciled.last.before[k] = NoWrapper}

\* C9: across the reconciler invocations (the initial call and one per
\* coordinator update), every (device id, sub-key) combination an invocation
\* has met in the container has had exactly one wrapper created and passed
\* to async_add_entities, and no combination more than one; an invocation
\* removes no wrapper from the registry, also when the id has left the
\* container; an invocation that meets no new combination creates nothing
\* and does not call async_add_entities, and one that meets new
\* combinations creates exactly those and calls it once.
C9_ExactlyOnce ==
    /\ \A k \in RegKeys :
          /\ reconciled.created[k] <= 1
          /\ reconciled.passed[k] = reconciled.created[k]
          /\ k \in reconciled.seen =>
                (reconciled.created[k] = 1 /\ entities[k] # NoWrapper)
    /\ reconciled.last.invoked =>
          /\ \A k \in RegKeys :
                reconciled.last.before[k] # NoWrapper =>
                    entities[k] = reconciled.last.before[k]
          /\ reconciled.last.created = NewCombinations
          /\ reconciled.last.called = (NewCombinations # {})
          /\ NewCombinations = {} => entities = reconciled.last.before

\* A third invocation that met nothing new, after the id of a registered
\* wrapper had left the container of its entry.
C9_Witness ==
    /\ reconciled.polls = 3
    /\ reconciled.add_calls = 1
    /\ reconciled.last.invoked
    /\ reconciled.last.created = {}
    /\ ~reconciled.last.called
    /\ \E k \in RegKeys :
          /\ entities[k] = reconciled.last.entry
          /\ k[1] \notin containers[reconciled.last.entry]

(***************************************************************************)
(*             Properties of the config-entry setup (__init__.py)          *)
(***************************************************************************)
\* C10: once asyncio.wait has returned, no first refresh is left pending;
\* if any first refresh failed, setup raised ConfigEntryNotReady; the
\* coordinators are stored and the platforms forwarded only when every
\* first refresh succeeded.
C10_AllOrNothing ==
    /\ setup.pc \in {"loaded", "not_ready"} => Pending(tasks) = {}
    /\ (setup.pc \in {"loaded", "not_ready"}
            /\ \E c \in Coordinators : tasks[c] = "failed")
          => setup.pc = "not_ready"
    /\ (setup.stored \/ setup.forwarded) =>
          \A c \in Coordinators : tasks[c] = "ok"

\* The sign-in was rejected by the client library, or answered with an HTTP
\* status from 400 to 499.
AuthenticationFailed(signin) ==
    \/ signin.exc = "PikIntercomException"
    \/ signin.exc = "ClientResponseError" /\ signin.status \in 400..499

\* C17: a setup attempt whose sign-in failed raises ConfigEntryAuthFailed,
\* creates no refresh task and stores nothing; a setup attempt in which a
\* first refresh failed raises ConfigEntryNotReady.
C17_SetupFailuresSurface ==
    /\ (setup.attempts > 0 /\ AuthenticationFailed(setup.signin)) =>
          /\ setup.pc = "raised"
          /\ setup.raised = "ConfigEntryAuthFailed"
          /\ ~setup.stored /\ ~setup.forwarded
    /\ (setup.pc \in {"loaded", "not_ready"}
          /\ \E c \in Coordinators : tasks[c] = "failed") =>
          /\ setup.pc = "not_ready"
          /\ setup.raised = "ConfigEntryNotReady"

(***************************************************************************)
(* api.py records as objects, and the entities that hold them              *)
(*                                                                         *)
(* A record of a collection is an object: PikIotMeter(api=self, id=...)    *)
(* makes a new one, `meters[meter_id]` hands the stored one out.  An       *)
(* entity keeps the object it was constructed with (`_internal_object`,    *)
(* `_intercom_device`).  Here a completed walk is one step; the object a   *)
(* record is gets a number, the count of objects made for its collection   *)
(* and id, when the walk has made it.                                      *)
(***************************************************************************)
NoEntity == [absent |-> TRUE]
NoWalkYet == [walked |-> FALSE, found |-> {}, objs |-> [i \in Ids |-> 0]]

InitObjects ==
    /\ objects = [refreshes |-> 0,
                  made |-> [o \in CollectionNames |-> [i \in Ids |-> 0]],
                  \* per fetcher: the ids its last completed walk reported
                  \* and the objects stored under them after it
                  previous |-> [k \in CollectionKinds |-> NoWalkYet],
                  last |-> [kind |-> "none", found |-> {},
                            before |-> NoWalkYet]]
    /\ wrappers = [o \in CollectionNames |-> [i \in Ids |-> NoEntity]]

\* A record the walk has constructed: it has no number yet.
IsNew(r) == r # NoRecord /\ "obj" \notin DOMAIN r
ObjOf(r) == IF r = NoRecord THEN 0 ELSE r.obj

\* The objects constructed by a walk get their numbers.
Numbered(a, made) ==
    [o \in DOMAIN a |->
        IF o \in CollectionNames
        THEN [i \in Ids |->
                 IF IsNew(a[o][i])
                 THEN [f \in DOMAIN a[o][i] \cup {"obj"} |->
                          IF f = "obj" THEN made[o][i] + 1 ELSE a[o][i][f]]
                 ELSE a[o][i]]
        ELSE a[o]]
MadeAfter(a, made) ==
    [o \in CollectionNames |->
        [i \in Ids |-> IF IsNew(a[o][i]) THEN made[o][i] + 1 ELSE made[o][i]]]

\* The `for ... in resp_data` loops of a walk over the records `items` the
\* server reports, page after page.
RECURSIVE WalkItems(_, _, _, _, _)
WalkItems(a, kind, items, found, found_relays) ==
    IF Len(items) = 0
    THEN [api |-> a, found |-> found, found_relays |-> found_relays,
          returned |-> FALSE]
    ELSE LET item == Head(items)
             id == ParseInt(item.id)
         IN IF id = NotInt
            THEN IF ReturnsOnBadId(kind)
                 THEN [api |-> a, found |-> found,
                       found_relays |-> found_relays, returned |-> TRUE]
                 ELSE WalkItems(a, kind, Tail(items), found, found_relays)
            ELSE WalkItems(
                     UpsertItem(a, kind, item), kind, Tail(items),
                     found \cup {id},
                     IF kind = "iot_intercoms"
                     THEN UpsertRelays(a.iot_relays, found_relays,
                                       item.relays).found_relays
                     ELSE found_relays)

\* A walk from its first request to its return: the loops, then the
\* clean-up unless the function returned from inside the loop.
CompletedWalk(a, kind, items) ==
    LET r == WalkItems(a, kind, items, {}, {})
    IN  [api |-> IF r.returned THEN r.api
                 ELSE CleanUp(r.api, [kind |-> kind, found |-> r.found,
                                      found_relays |-> r.found_relays]),
         found |-> r.found]

\* `device in self.api_object.iot_relays.values()`: list membership, which
\* is identity or ==; the records are dataclasses, whose == compares the
\* fields (api, id and the data fields).
InValues(m, e) ==
    \E i \in Ids : /\ m[i] # NoRecord
                   /\ \/ m[i].obj = e.obj
                      \/ (i = e.id /\ m[i].name = e.name)

\* `for d in self.api_object.devices.values(): if d is my_device: return True`
IsInValues(m, e) == \E i \in Ids : m[i] # NoRecord /\ m[i].obj = e.obj

\* What an entity of collection o reports as its availability:
\* _update_attr of the relay and camera entities, of the meter entity
\* (`self._attr_available = True`), the IoT intercom entity (which never
\* sets it), and the `available` property of the property-device entity.
Available(o, a, e) ==
    IF o \in {"iot_relays", "iot_cameras"} THEN InValues(a[o], e)
    ELSE IF o \in {"iot_meters", "iot_intercoms"} THEN TRUE
    ELSE IsInValues(a[o], e)

\* The object an entity holds is mutated in place as long as it is stored;
\* once deleted from the collection it keeps its last field values.
HeldObject(o, a, e) ==
    IF a[o][e.id] # NoRecord /\ a[o][e.id].obj = e.obj
    THEN [e EXCEPT !.name = a[o][e.id].name]
    ELSE e

\* The coordinator of fetcher `kind` has updated: its entities run
\* _handle_coordinator_update.  The property-device entity computes
\* `available` on every read.
Updated(kind, o, a, e) ==
    LET h == HeldObject(o, a, e)
    IN  IF o \in OwnedBy(kind) \/ o = "devices"
        THEN [h EXCEPT !.available = Available(o, a, h)]
        ELSE h

\* A coordinator update: one completed walk of fetcher `kind`, then the
\* listeners of that coordinator.
Refresh(kind, items) ==
    /\ objects.refreshes < MaxRefreshes
    /\ LET r == CompletedWalk(api, kind, items)
           a == Numbered(r.api, objects.made)
           coll == CollectionOf(kind)
       IN  /\ api' = a
           /\ objects' =
                 [refreshes |-> objects.refreshes + 1,
                  made |-> MadeAfter(r.api, objects.made),
                  previous |-> [objects.previous EXCEPT ![kind] =
                                   [walked |-> TRUE, found |-> r.found,
                                    objs |-> [i \in Ids |-> ObjOf(a[coll][i])]]],
                  last |-> [kind |-> kind, found |-> r.found,
                            before |-> objects.previous[kind]]]
           /\ wrappers' =
                 [o \in CollectionNames |-> [i \in Ids |->
                     IF wrappers[o][i] = NoEntity THEN NoEntity
                     ELSE Updated(kind, o, a, wrappers[o][i])]]
    /\ UNCHANGED othersOfObjects

\* A platform constructs the entity for a stored record that has none
\* (`if item_id not in entities`); the constructor runs _update_attr.
EntityAdded(o, i) ==
    /\ api[o][i] # NoRecord
    /\ "obj" \in DOMAIN api[o][i]
    /\ wrappers[o][i] = NoEntity
    /\ LET e == [id |-> i, obj |-> api[o][i].obj, name |-> api[o][i].name,
                 available |-> TRUE]
       IN wrappers' = [wrappers EXCEPT
                          ![o][i] = [e EXCEPT !.available = Available(o, api, e)]]
    /\ UNCHANGED <<api, objects, othersOfObjects>>

\* The records one completed walk can report.
Reports(kind) ==
    UNION {[1..n -> ItemsOf(kind)] : n \in 0..MaxReport}

NextObjects ==
    \/ \E kind \in CollectionKinds : \E items \in Reports(kind) :
          Refresh(kind, items)
    \/ \E o \in CollectionNames, i \in Ids : EntityAdded(o, i)

(***************************************************************************)
(*         Properties of the wrapper registry (entity.py)                  *)
(***************************************************************************)
\* C20: once the reconciler has run for a config entry, every (device id,
\* sub-key) combination of that entry's container has a wrapper bound to
\* that entry's coordinator, also when another entry's container holds the
\* same device id.
C20_WrapperPerEntry ==
    \A e \in listeners : \A k \in RegKeys :
        k[1] \in containers[e] => entities[k] = e

(***************************************************************************)
(*         Properties of the in-flight future map (_base.py)               *)
(***************************************************************************)
\* C19: the future map holds an entry for a key only while the fetch of
\* the task that stored it is running, and the entry is the future of that
\* fetch; a call made when no fetch is running for the key finds no entry
\* and starts a fetch of its own.
C19_EntryOnlyWhileFetching ==
    /\ \A k \in Keys :
          KeyInFutures(k) =>
              \E c \in Callers : /\ caller[c].pc = "fetching"
                                 /\ caller[c].key = k
                                 /\ caller[c].fut = futures[k]
    /\ \A c \in Callers :
          caller[c].pc = "waiting" =>
              \/ futures[caller[c].key] = caller[c].fut
              \/ futState[caller[c].fut].state # "PENDING"

\* A fetch for a key has ended with an error, and a later call for the same
\* key runs a fetch of its own with a future of its own.
C19_Witness ==
    \E c, d \in Callers :
        /\ caller[c].pc = "done"
        /\ caller[c].out \in Errors
        /\ fetchResult[caller[c].fut] \in Errors
        /\ caller[d].pc = "fetching"
        /\ caller[d].key = caller[c].key
        /\ caller[d].fut # caller[c].fut
        /\ futures[caller[d].key] = caller[d].fut

(***************************************************************************)
(*         Properties of last_call_session (api.py)                        *)
(***************************************************************************)
\* C18: last_call_session is None when no call session is cached, and
\* otherwise a cached session whose notified_at is not less than the
\* notified_at of any cached session.
C18_LastCallSessionIsMax ==
    LET cs == api.call_sessions
        last == LastCallSession(cs)
    IN  IF Len(cs) = 0 THEN last = NoSession
        ELSE /\ last # NoSession
             /\ HasSession(cs, last)
             /\ \A m \in 1..Len(cs) :
                   cs[m].notified_at <= NotifiedAt(cs, last)

\* A walk has read the property from a cache of two sessions of which the
\* one cached later was notified later.
C18_Witness ==
    /\ walk.kind = "call_sessions"
    /\ Len(pre.call_sessions) = 2
    /\ pre.call_sessions[1].notified_at < pre.call_sessions[2].notified_at
    /\ walk.last_call_session = pre.call_sessions[2].id

(***************************************************************************)
(*         Properties of records with a non-numeric id (api.py)            *)
(***************************************************************************)
\* C16: a record whose id is not numeric does not end the walk of a
\* collection fetch: the walk goes on with the next record and the next
\* page, and it ends, unless a request fails, at the empty page, after
\* which the clean-up runs.
C16_BadIdIsSkipped ==
    (walk.kind \in CollectionKinds /\ walk.bad_id_seen) =>
        /\ walk.status # "returned"
        /\ walk.status = "done" => Last(walk.responses) = "empty"

(***************************************************************************)
(*         Properties of the relays of an IoT intercom (api.py)            *)
(***************************************************************************)
\* The numeric relay ids of a relay list of the response, in its order.
RECURSIVE NumericIds(_)
NumericIds(relay_list) ==
    IF Len(relay_list) = 0 THEN << >>
    ELSE IF ParseInt(Head(relay_list).id) = NotInt
         THEN NumericIds(Tail(relay_list))
         ELSE <<ParseInt(Head(relay_list).id)>> \o NumericIds(Tail(relay_list))

\* C22: when the IoT intercoms walk has processed the record of an
\* intercom, the intercom's relays list names exactly the relays with a
\* numeric id that the record lists, in the order of the record.
C22_RelaysOfIntercom ==
    [][\A item \in IntercomItems :
          (walk.kind = "iot_intercoms" /\ ParseInt(item.id) # NotInt
             /\ ResponseItem(item)) =>
              api'.iot_intercoms[ParseInt(item.id)].relays
                  = NumericIds(item.relays)]_vars

(***************************************************************************)
(*         Properties of the record objects and the entities (api.py,      *)
(*         entity.py, _base.py)                                            *)
(***************************************************************************)
\* C11: an id reported by two consecutive completed walks of the same
\* collection is stored after the second walk as the very object it was
\* stored as after the first, and an entity holding that object sees the
\* values the second walk has written.
C11_IdentityStable ==
    (objects.last.kind \in CollectionKinds /\ objects.last.before.walked) =>
        \A i \in objects.last.found \cap objects.last.before.found :
            LET o == CollectionOf(objects.last.kind)
            IN  /\ ObjOf(api[o][i]) = objects.last.before.objs[i]
                /\ (wrappers[o][i] # NoEntity
                      /\ wrappers[o][i].obj = objects.last.before.objs[i])
                   => wrappers[o][i].name = api[o][i].name

\* C12: after a coordinator update, every entity of that coordinator is
\* available exactly when the very object it holds is still stored in its
\* collection.
C12_AvailableIffStored ==
    objects.last.kind \in CollectionKinds =>
        \A o \in OwnedBy(objects.last.kind) : \A i \in Ids :
            wrappers[o][i] # NoEntity =>
                (wrappers[o][i].available
                    <=> IsInValues(api[o], wrappers[o][i]))

\* The ids the last completed walk has reported for collection o: the ids
\* of its records, and for the relays the ids the clean-up has kept.
ReportedLast(o) ==
    IF o = CollectionOf(objects.last.kind) THEN objects.last.found
    ELSE {i \in Ids : api[o][i] # NoRecord}

\* C21: after a completed walk, the entity registered for an id the walk
\* has reported holds the record now stored under the id, shows its
\* current values and is available, also when the record had been deleted
\* by an earlier walk that did not report the id.
C21_WrapperFollowsRecord ==
    objects.last.kind \in CollectionKinds =>
        \A o \in OwnedBy(objects.last.kind) : \A i \in ReportedLast(o) :
            (wrappers[o][i] # NoEntity /\ api[o][i] # NoRecord) =>
                /\ wrappers[o][i].obj = api[o][i].obj
                /\ wrappers[o][i].name = api[o][i].name
                /\ wrappers[o][i].available

(***************************************************************************)
(*       api.py: requests, authentication and unlocking                    *)
(*                                                                         *)
(* A call on the client is one step: the request it makes is answered      *)
(* within the step.  The answer of the server is an input of the call.     *)
(***************************************************************************)
Tokens == {"Bearer t1", "Bearer t2"}
NoToken == "None"           \* _authorization is None; header not present
EmptyHeader == ""           \* an Authorization header with an empty value
NoAccount == [absent |-> TRUE]
NoData == [missing |-> TRUE]    \* the key is not in the response body
AccountData == [id : Ids, email : Names]
OkStatuses == {200, 201}
\* statuses other than 200 and 201 the server answers with
RefusedStatuses == {401}
\* resp_data.get("request") of the unlocking response
RequestFlags == {"True", "False", "absent"}

\* How a call ends: normally, or with an exception.
Returned == "returned"
NotAuthenticated == "PikIntercomException: API not authenticated"
BadStatus == "PikIntercomException: status code"
BodyDecodingFailed == "PikIntercomException: body decoding failed"
TimedOut == "PikIntercomException: timed out"
ClientError == "PikIntercomException: client error"
ErrorInBody == "PikIntercomException: error code"
HeaderNotFound == "PikIntercomException: Authorization header not found"
UnlockTimedOut == "PikIntercomException: Timed out unlocking intercom"
KeyErrorAccount == "KeyError: 'account'"

\* An answer to a request: what the transport did, the HTTP status, whether
\* the body decodes as JSON, and what the decoded body holds.
Answer(transport, status, json, error, authorization, account, request) ==
    [transport |-> transport, status |-> status, json |-> json,
     error |-> error, authorization |-> authorization,
     account |-> account, request |-> request]

\* The answers that make _async_req raise after the request was sent.
FailingAnswers ==
    {Answer("TimeoutError", 200, TRUE, FALSE, NoToken, NoData, "absent"),
     Answer("ClientError", 200, TRUE, FALSE, NoToken, NoData, "absent"),
     Answer("ok", 200, FALSE, FALSE, NoToken, NoData, "absent"),
     Answer("ok", 200, TRUE, TRUE, NoToken, NoData, "absent")}
    \cup {Answer("ok", s, TRUE, FALSE, NoToken, NoData, "absent") :
             s \in RefusedStatuses}

PlainAnswers ==
    FailingAnswers \cup
    {Answer("ok", s, TRUE, FALSE, NoToken, NoData, "absent") : s \in OkStatuses}

SignInAnswers ==
    FailingAnswers \cup
    {Answer("ok", s, TRUE, FALSE, t, a, "absent") :
        s \in OkStatuses, t \in Tokens \cup {NoToken, EmptyHeader},
        a \in AccountData \cup {NoData}}

UnlockAnswers ==
    FailingAnswers \cup
    {Answer("ok", s, TRUE, FALSE, NoToken, NoData, f) :
        s \in OkStatuses, f \in RequestFlags}

NoCall ==
    [op |-> "none", authenticated |-> FALSE, sent |-> FALSE,
     header |-> NoToken, request_raised |-> Returned, raised |-> Returned,
     request |-> "absent",
     authorization |-> NoToken, account |-> NoData,
     before |-> [authorization |-> NoToken, request_counter |-> 0,
                 account |-> NoAccount]]

InitClient ==
    /\ client = [authorization |-> NoToken, request_counter |-> 0,
                 account |-> NoAccount]
    /\ call = NoCall

\* A client that passes for authenticated whatever it holds.
IsAuthenticatedAlways(c) == TRUE

\* `return self._authorization is not None`
IsAuthenticated(c) == c.authorization # NoToken

\* What the answer makes of a request that was sent: the `try` block of
\* _async_req and its `except` and `else` clauses.
OutcomeOf(answer) ==
    IF answer.transport = "TimeoutError" THEN TimedOut
    ELSE IF answer.transport = "ClientError" THEN ClientError
    ELSE IF answer.status \notin OkStatuses THEN BadStatus
    ELSE IF ~answer.json THEN BodyDecodingFailed
    ELSE IF answer.error THEN ErrorInBody
    ELSE Returned

\* _async_req: the client after the request, whether the request was sent,
\* the Authorization header it carried, and how the call ended.
AsyncReq(c, authenticated, answer) ==
    IF authenticated /\ ~IsAuthenticated(c)
    THEN [client |-> c, sent |-> FALSE, header |-> NoToken,
          raised |-> NotAuthenticated]
    ELSE [client |-> [c EXCEPT !.request_counter = @ + 1],
          sent |-> TRUE,
          header |-> IF authenticated THEN c.authorization ELSE NoToken,
          raised |-> OutcomeOf(answer)]

\* The record of a call for the properties.
CallRecord(op, authenticated, r, raised, answer) ==
    [op |-> op, authenticated |-> authenticated, sent |-> r.sent,
     header |-> r.header, request_raised |-> r.raised, raised |-> raised,
     request |-> answer.request,
     authorization |-> answer.authorization, account |-> answer.account,
     before |-> client]

\* Any request of the client other than the ones below (_async_get,
\* _async_post), authenticated or not.
Request(authenticated, answer) ==
    LET r == AsyncReq(client, authenticated, answer)
    IN  /\ client.request_counter < MaxRequests
        /\ client' = r.client
        /\ call' = CallRecord("request", authenticated, r, r.raised, answer)
        /\ UNCHANGED othersOfClient

\* The account after `if not (account := self._account): account = ...`
\* and the assignments to its fields.
UpsertAccount(account, account_data) ==
    IF account = NoAccount
    THEN [id |-> account_data.id, email |-> account_data.email]
    ELSE [account EXCEPT !.email = account_data.email]

\* async_authenticate
Authenticate(answer) ==
    LET r == AsyncReq(client, FALSE, answer)
        no_header == answer.authorization \in {NoToken, EmptyHeader}
        raised == IF r.raised # Returned THEN r.raised
                  ELSE IF no_header THEN HeaderNotFound
                  ELSE IF answer.account = NoData THEN KeyErrorAccount
                  ELSE Returned
    IN  /\ client.request_counter < MaxRequests
        /\ client' =
             IF r.raised # Returned \/ no_header THEN r.client
             ELSE IF answer.account = NoData
             THEN [r.client EXCEPT !.authorization = answer.authorization]
             ELSE [r.client EXCEPT
                      !.authorization = answer.authorization,
                      !.account = UpsertAccount(@, answer.account)]
        /\ call' = CallRecord("authenticate", FALSE, r, raised, answer)
        /\ UNCHANGED othersOfClient

\* async_unlock_property_intercom
UnlockPropertyIntercom(answer) ==
    LET r == AsyncReq(client, TRUE, answer)
        raised == IF r.raised # Returned THEN r.raised
                  ELSE IF answer.request # "True" THEN UnlockTimedOut
                  ELSE Returned
    IN  /\ client.request_counter < MaxRequests
        /\ client' = r.client
        /\ call' = CallRecord("unlock_property_intercom", TRUE, r, raised,
                              answer)
        /\ UNCHANGED othersOfClient

\* async_unlock_iot_relay
UnlockIotRelay(answer) ==
    LET r == AsyncReq(client, TRUE, answer)
    IN  /\ client.request_counter < MaxRequests
        /\ client' = r.client
        /\ call' = CallRecord("unlock_iot_relay", TRUE, r, r.raised, answer)
        /\ UNCHANGED othersOfClient

NextClient ==
    \/ \E authenticated \in BOOLEAN, answer \in PlainAnswers :
          Request(authenticated, answer)
    \/ \E answer \in SignInAnswers : Authenticate(answer)
    \/ \E answer \in UnlockAnswers : UnlockPropertyIntercom(answer)
    \/ \E answer \in UnlockAnswers : UnlockIotRelay(answer)

(***************************************************************************)
(*      Properties of requests, authentication and unlocking (api.py)      *)
(***************************************************************************)
\* C13: an authenticated request made while no token is held raises the
\* not-authenticated error, sends nothing and leaves the request counter as
\* it was; made while a token is held it is sent with exactly the stored
\* token in its Authorization header.
C13_AuthenticatedNeedsToken ==
    (call.op # "none" /\ call.authenticated) =>
        IF call.before.authorization = NoToken
        THEN /\ call.raised = NotAuthenticated
             /\ ~call.sent
             /\ client.request_counter = call.before.request_counter
        ELSE /\ call.sent
             /\ call.header = call.before.authorization
             /\ call.header \in Tokens

C13_Witness ==
    /\ call.op = "request"
    /\ call.authenticated
    /\ call.before.authorization = NoToken
    /\ call.raised = NotAuthenticated

C13_WitnessToken ==
    /\ call.authenticated
    /\ call.sent
    /\ call.header = "Bearer t2"
    /\ call.before.request_counter > 0

\* C14: a sign-in that returns has stored the token of the response's
\* Authorization header and upserted the account; a sign-in that raises has
\* left the stored token and the account as they were.
C14_SignInAllOrNothing ==
    call.op = "authenticate" =>
        IF call.raised = Returned
        THEN /\ client.authorization = call.authorization
             /\ client.account = UpsertAccount(call.before.account, call.account)
        ELSE /\ client.authorization = call.before.authorization
             /\ client.account = call.before.account

\* C15: an unlock call returns normally only when the response body carries
\* the success flag, and raises the unlock error when the request went well
\* and the flag is not set.
C15_UnlockNeedsFlag ==
    (call.op \in {"unlock_property_intercom", "unlock_iot_relay"}
       /\ call.request_raised = Returned) =>
        IF call.request = "True"
        THEN call.raised = Returned
        ELSE call.raised = UnlockTimedOut

(***************************************************************************)
(*       entity.py: the last-call-session coordinator                      *)
(*                                                                         *)
(* A poll is one call of _async_update_internal; when it returns, the      *)
(* coordinator stores the returned value as its data, when it raises the   *)
(* data stay.  What the client library answers is an input of the poll.    *)
(***************************************************************************)
NoneData == [kind |-> "None", id |-> 0, active |-> FALSE]
FalseData == [kind |-> "False", id |-> 0, active |-> FALSE]
SessionData(id, active) == [kind |-> "session", id |-> id, active |-> active]
\* fetch_last_active_session(): None, or the active session
ActiveSessions == {NoSession} \cup Ids
\* A call-history task returns, raises, or returns an exception object; a
\* task that returns has put the sessions of the first page into the cache.
HistoryOutcomes == {"returned", "raised", "returned exception"}
HistoryResults == [outcome : HistoryOutcomes, session : {NoSession} \cup Ids]

NoPoll == [polled |-> FALSE, started |-> NoneData, active |-> NoSession,
           history |-> FALSE, iot |-> "returned", icm |-> "returned",
           raised |-> FALSE]

InitLcs ==
    lcsc = [data |-> NoneData, cached |-> NoSession, polls |-> 0,
           history_requests |-> 0, quiet |-> TRUE, last |-> NoPoll]

\* A test that never takes the branch.
IsFalseNever(data) == FALSE

\* `if (data := self.data) is False: return None`
IsFalse(data) == data = FalseData

\* The cache after the two history tasks: get_last_call_session() is the
\* latest session of the cache, here the one with the greatest id.
CachedAfter(cached, iot, icm) ==
    LET of(r) == IF r.outcome = "returned" THEN r.session ELSE NoSession
        latest(a, b) == IF a < b THEN b ELSE a
    IN latest(cached, latest(of(iot), of(icm)))

\* `iot_result, icm_result = tasks[0].result(), tasks[1].result()` raises
\* the exception of the first task that has raised; the isinstance tests
\* after it see only what the tasks have returned.
HistoryRaises(iot, icm) ==
    \/ iot.outcome = "raised"
    \/ icm.outcome = "raised"
    \/ (iot.outcome = "returned exception" /\ icm.outcome = "returned exception")

\* _async_update_internal: what it leaves in the cache, whether it has
\* started the history tasks, whether it raises, and what it returns.
UpdateInternal(data, cached, active, iot, icm) ==
    IF active # NoSession
    THEN [cached |-> cached, history |-> FALSE, raised |-> FALSE,
          result |-> SessionData(active, TRUE)]
    ELSE IF IsFalse(data)
    THEN [cached |-> cached, history |-> FALSE, raised |-> FALSE,
          result |-> NoneData]
    ELSE IF data # NoneData
    THEN [cached |-> cached, history |-> FALSE, raised |-> FALSE,
          result |-> data]
    ELSE LET c == CachedAfter(cached, iot, icm)
         IN [cached |-> c, history |-> TRUE,
             raised |-> HistoryRaises(iot, icm),
             result |-> IF c = NoSession THEN FalseData
                        ELSE SessionData(c, FALSE)]

\* One poll of the coordinator.
Poll(active, iot, icm) ==
    /\ lcsc.polls < MaxLcsPolls
    /\ LET r == UpdateInternal(lcsc.data, lcsc.cached, active, iot, icm)
       IN lcsc' = [data |-> IF r.raised THEN lcsc.data ELSE r.result,
                  cached |-> r.cached,
                  polls |-> lcsc.polls + 1,
                  history_requests |->
                      IF r.history THEN lcsc.history_requests + 1
                      ELSE lcsc.history_requests,
                  \* no active session, no history and no error so far
                  quiet |-> /\ lcsc.quiet
                            /\ active = NoSession
                            /\ ~r.raised
                            /\ r.cached = NoSession,
                  last |-> [polled |-> TRUE, started |-> lcsc.data,
                            active |-> active, history |-> r.history,
                            iot |-> iot.outcome, icm |-> icm.outcome,
                            raised |-> r.raised]]
    /\ UNCHANGED othersOfLcs

NextLcs ==
    \E active \in ActiveSessions, iot \in HistoryResults, icm \in HistoryResults :
        Poll(active, iot, icm)

(***************************************************************************)
(*      Properties of the last-call-session coordinator (entity.py)        *)
(***************************************************************************)
\* C23: a poll that has run the two history fetches raises only when both
\* have failed; when at most one has failed it returns the last call
\* session of the cache, or False when the cache has none.
C23_FailsOnlyIfBothFail ==
    (lcsc.last.polled /\ lcsc.last.history) =>
        IF lcsc.last.iot # "returned" /\ lcsc.last.icm # "returned"
        THEN lcsc.last.raised
        ELSE /\ ~lcsc.last.raised
             /\ lcsc.data = IF lcsc.cached = NoSession THEN FalseData
                           ELSE SessionData(lcsc.cached, FALSE)

\* C24: while there is no active session and no history, the data after
\* the polls are False, None, False, ... and the history is requested on the
\* polls that start with None, and only on those; a poll that starts with a
\* session as data and finds no active session keeps the session and
\* requests no history.
C24_AlternatesAndKeeps ==
    /\ lcsc.quiet =>
          /\ lcsc.data = IF lcsc.polls % 2 = 1 THEN FalseData ELSE NoneData
          /\ lcsc.history_requests = (lcsc.polls + 1) \div 2
    /\ (lcsc.last.polled /\ lcsc.last.active = NoSession) =>
          /\ lcsc.last.history <=> lcsc.last.started = NoneData
          /\ lcsc.last.started.kind = "session" =>
                (lcsc.data = lcsc.last.started /\ ~lcsc.last.raised)

\* Four quiet polls have run.
C24_Witness ==
    /\ lcsc.quiet
    /\ lcsc.polls = 4
    /\ lcsc.history_requests = 2
    /\ lcsc.data = NoneData

\* A poll has started with a session as data and found no active session.
C24_WitnessSession ==
    /\ lcsc.last.polled
    /\ lcsc.last.active = NoSession
    /\ lcsc.last.started.kind = "session"
    /\ lcsc.data = lcsc.last.started

(***************************************************************************)
(*       __init__.py: the filter of the ICM properties                     *)
(*                                                                         *)
(* api_object.icm_properties is a dict; here it is the sequence of the     *)
(* intercom-id sets of its properties in the order of the dict, and a      *)
(* property id is a position of the sequence.                              *)
(***************************************************************************)
IntercomIdSets == SUBSET Ids
PropertyLists == UNION {[1..n -> IntercomIdSets] : n \in 0..MaxProperties}

InitIcm == icmProps = [filtered |-> FALSE, properties |-> << >>, valid |-> {}]

\* A test that takes a property for redundant when it shares an intercom.
IsRedundantOverlap(intercom_ids, others) ==
    \E j \in 1..Len(others) : intercom_ids \cap others[j] # {}

\* `any(intercom_ids.issubset(other_ids) for _, other_ids in property_intercom_ids)`
IsRedundant(intercom_ids, others) ==
    \E j \in 1..Len(others) : intercom_ids \subseteq others[j]

\* `while property_intercom_ids:`: pop() takes the last pair off the list,
\* and the property is removed from valid_property_ids when its set is a
\* subset of the set of a pair still in the list.
RECURSIVE FilterLoop(_, _)
FilterLoop(property_intercom_ids, valid_property_ids) ==
    IF Len(property_intercom_ids) = 0 THEN valid_property_ids
    ELSE LET property_id == Len(property_intercom_ids)
             intercom_ids == property_intercom_ids[property_id]
             rest == SubSeq(property_intercom_ids, 1, property_id - 1)
         IN FilterLoop(rest,
                       IF IsRedundant(intercom_ids, rest)
                       THEN valid_property_ids \ {property_id}
                       ELSE valid_property_ids)

\* valid_property_ids after "Rule out required properties".
ValidPropertyIds(properties) ==
    IF Len(properties) > 1
    THEN FilterLoop(properties, 1..Len(properties))
    ELSE 1..Len(properties)

\* async_init_icm_coordinators for an account with these properties.
InitIcmCoordinators(properties) ==
    /\ ~icmProps.filtered
    /\ icmProps' = [filtered |-> TRUE, properties |-> properties,
               valid |-> ValidPropertyIds(properties)]
    /\ UNCHANGED othersOfIcm

NextIcm == \E properties \in PropertyLists : InitIcmCoordinators(properties)

(***************************************************************************)
(*      Properties of the filter of the ICM properties (__init__.py)       *)
(***************************************************************************)
\* C25: every intercom id of a property of the account is an intercom id
\* of a property that is kept, and of an account with properties at least
\* one property is kept.
C25_CoverageKept ==
    icmProps.filtered =>
        /\ \A p \in 1..Len(icmProps.properties) : \A i \in icmProps.properties[p] :
              \E q \in icmProps.valid : i \in icmProps.properties[q]
        /\ Len(icmProps.properties) > 0 => icmProps.valid # {}
        /\ icmProps.valid \subseteq 1..Len(icmProps.properties)

\* Of three properties the last two have been removed, the second for the
\* sake of the first only.
C25_Witness ==
    /\ icmProps.filtered
    /\ Len(icmProps.properties) = 3
    /\ icmProps.valid = {1}
    /\ icmProps.properties[3] # {}
    /\ icmProps.properties[2] # icmProps.properties[3]

\* C26: of the properties kept, none has an intercom-id set that is a
\* subset of, or equal to, the set of another kept property.
C26_NoRedundantKept ==
    icmProps.filtered =>
        \A p, q \in icmProps.valid :
            p # q => ~(icmProps.properties[p] \subseteq icmProps.properties[q])

(***************************************************************************)
(*       __init__.py: unloading a config entry                             *)
(*                                                                         *)
(* The wrapper registry is the one of the reconciler.  A wrapper is known  *)
(* by the config entry of its coordinator, which is what                   *)
(* `entities_dict[key].coordinator.config_entry.entry_id` reads.           *)
(***************************************************************************)
Snapshot(ents, data) ==
    [entities |-> ents, coordinators |-> data.coordinators,
     reauthenticators |-> data.reauthenticators, timers |-> data.timers]

InitUnload ==
    /\ hassData = [coordinators |-> [e \in Entries |-> FALSE],
                   reauthenticators |-> [e \in Entries |-> FALSE],
                   timers |-> [e \in Entries |-> "none"]]
    /\ unloads = [count |-> 0, unloaded |-> FALSE, entry |-> "entry1",
                  ok |-> FALSE,
                  before |-> Snapshot(entities, hassData),
                  after |-> Snapshot(entities, hassData)]

\* async_setup_entry from "Save update coordinators" on: the coordinators
\* are stored, and with a positive interval the reauthentication timer is
\* started and stored.
EntryStored(e, reauthenticates) ==
    /\ ~hassData.coordinators[e]
    /\ hassData' =
          [hassData EXCEPT
              !.coordinators[e] = TRUE,
              !.reauthenticators[e] = reauthenticates,
              !.timers[e] = IF reauthenticates THEN "running" ELSE @]
    /\ UNCHANGED <<unloads, entities, listeners, othersOfUnload>>

\* A test that takes every wrapper for one of the entry.
BelongsToAny(wrapper, e) == wrapper # NoWrapper

\* `if entity_entry_id == entry.entry_id:`
BelongsTo(wrapper, e) == wrapper = e

\* async_unload_entry: when the platforms have unloaded, the wrappers of
\* the entry are deleted from the registry, the coordinators of the entry
\* are popped, and the reauthentication timer of the entry, if there is
\* one, is popped and cancelled.  The listeners of the coordinators stay.
UnloadEntry(e, unload_ok) ==
    /\ hassData.coordinators[e]
    /\ unloads.count < MaxUnloads
    /\ LET ents == IF unload_ok
                   THEN [k \in RegKeys |->
                            IF BelongsTo(entities[k], e) THEN NoWrapper
                            ELSE entities[k]]
                   ELSE entities
           data == IF unload_ok
                   THEN [hassData EXCEPT
                            !.coordinators[e] = FALSE,
                            !.reauthenticators[e] = FALSE,
                            !.timers[e] =
                                IF hassData.reauthenticators[e]
                                THEN "cancelled" ELSE @]
                   ELSE hassData
       IN  /\ entities' = ents
           /\ hassData' = data
           /\ unloads' = [count |-> unloads.count + 1, unloaded |-> TRUE,
                          entry |-> e, ok |-> unload_ok,
                          before |-> Snapshot(entities, hassData),
                          after |-> Snapshot(ents, data)]
    /\ UNCHANGED <<listeners, othersOfUnload>>

NextUnload ==
    \/ \E e \in Entries, reauthenticates \in BOOLEAN :
          EntryStored(e, reauthenticates)
    \/ \E e \in Entries, ids \in SUBSET Ids :
          hassData.coordinators[e] /\ FirstRefresh(e, ids)
    \/ \E e \in Entries :
          hassData.coordinators[e] /\ AddEntitiesWithListener(e)
    \/ \E e \in Entries, ids \in SUBSET Ids :
          hassData.coordinators[e] /\ CoordinatorUpdate(e, ids)
    \/ \E e \in Entries, unload_ok \in BOOLEAN : UnloadEntry(e, unload_ok)

(***************************************************************************)
(*      Properties of unloading a config entry (__init__.py)               *)
(***************************************************************************)
\* C27: an unload whose platforms have unloaded has removed from the
\* registry the wrappers of the entry and no other, has removed the
\* coordinators of the entry and cancelled its reauthentication timer, and
\* has left the coordinators and timers of the other entries as they were;
\* an unload whose platforms have not unloaded has changed nothing.
C27_UnloadRemovesOwnOnly ==
    unloads.unloaded =>
        LET e == unloads.entry
            b == unloads.before
            a == unloads.after
        IN  IF unloads.ok
            THEN /\ \A k \in RegKeys :
                       /\ b.entities[k] = e => a.entities[k] = NoWrapper
                       /\ b.entities[k] # e => a.entities[k] = b.entities[k]
                 /\ ~a.coordinators[e]
                 /\ ~a.reauthenticators[e]
                 /\ a.timers[e] # "running"
                 /\ \A o \in Entries \ {e} :
                       /\ a.coordinators[o] = b.coordinators[o]
                       /\ a.reauthenticators[o] = b.reauthenticators[o]
                       /\ a.timers[o] = b.timers[o]
            ELSE a = b

\* An entry with wrappers and a running timer has been unloaded while the
\* other entry had wrappers and a running timer too.
C27_Witness ==
    /\ unloads.unloaded
    /\ unloads.ok
    /\ \E k \in RegKeys : unloads.before.entities[k] = unloads.entry
    /\ \E k \in RegKeys : /\ unloads.before.entities[k] # NoWrapper
                          /\ unloads.before.entities[k] # unloads.entry
    /\ unloads.before.timers[unloads.entry] = "running"
    /\ \E o \in Entries \ {unloads.entry} : unloads.before.timers[o] = "running"

\* The platforms of an entry with wrappers have failed to unload.
C27_WitnessFailed ==
    /\ unloads.unloaded
    /\ ~unloads.ok
    /\ \E k \in RegKeys : unloads.before.entities[k] = unloads.entry

(***************************************************************************)
(*       __init__.py, const.py: the update intervals                       *)
(***************************************************************************)
MIN_INTERCOMS_UPDATE_INTERVAL == 15
MIN_AUTH_UPDATE_INTERVAL == 7200
MIN_LAST_CALL_SESSION_UPDATE_INTERVAL == 3
MIN_IOT_UPDATE_INTERVAL == 15

\* The polls of a config entry: ICM intercoms, IoT devices, last call
\* session, reauthentication.
PollKinds == {"icm", "iot", "lcs", "auth"}

\* The minimum each of the four places of the code passes to max().
MinimumOf(kind) ==
    IF kind = "icm" THEN MIN_INTERCOMS_UPDATE_INTERVAL
    ELSE IF kind = "iot" THEN MIN_IOT_UPDATE_INTERVAL
    ELSE IF kind = "lcs" THEN MIN_LAST_CALL_SESSION_UPDATE_INTERVAL
    ELSE MIN_AUTH_UPDATE_INTERVAL

\* The intervals a config entry can hold for a poll: below, at and above
\* zero, and below, at and above the minimum.
ConfiguredIntervals(kind) ==
    {-1, 0, 1, MinimumOf(kind) - 1, MinimumOf(kind), MinimumOf(kind) + 1}

NoSchedule == [periodic |-> FALSE, seconds |-> 0]

InitSchedule ==
    schedules = [set_up |-> FALSE,
                 options |-> [k \in PollKinds |-> 0],
                 made |-> [k \in PollKinds |-> NoSchedule]]

\* An interval that is taken as it is configured.
Unclamped(minimum, interval) == interval

\* `max(MIN_..., interval)`
Clamped(minimum, interval) == IF minimum < interval THEN interval ELSE minimum

\* `if (interval := entry.options[CONF_...]) > 0:
\*      interval = timedelta(seconds=max(MIN_..., interval))
\*  else: interval = None`; for the reauthentication no timer is set up.
ScheduleOf(kind, interval) ==
    IF interval > 0
    THEN [periodic |-> TRUE, seconds |-> Clamped(MinimumOf(kind), interval)]
    ELSE NoSchedule

\* async_setup_entry with these options: the intervals of the coordinators
\* and of the reauthentication.
SchedulesSetUp(options) ==
    /\ ~schedules.set_up
    /\ schedules' = [set_up |-> TRUE, options |-> options,
                     made |-> [k \in PollKinds |-> ScheduleOf(k, options[k])]]
    /\ UNCHANGED othersOfSchedule

NextSchedule ==
    \E options \in [PollKinds -> UNION {ConfiguredIntervals(k) : k \in PollKinds}] :
        /\ \A k \in PollKinds : options[k] \in ConfiguredIntervals(k)
        /\ SchedulesSetUp(options)

DEFAULT_INTERCOMS_UPDATE_INTERVAL == 600
DEFAULT_AUTH_UPDATE_INTERVAL == 86400
DEFAULT_LAST_CALL_SESSION_UPDATE_INTERVAL == 7
DEFAULT_METERS_UPDATE_INTERVAL == 86400
MIN_DEVICE_ID_LENGTH == 6

\* `_INTERVALS_WITH_DEFAULTS`: the default and the minimum of each interval.
IntervalsWithDefaults ==
    [icm |-> <<DEFAULT_INTERCOMS_UPDATE_INTERVAL, MIN_INTERCOMS_UPDATE_INTERVAL>>,
     auth |-> <<DEFAULT_AUTH_UPDATE_INTERVAL, MIN_AUTH_UPDATE_INTERVAL>>,
     lcs |-> <<DEFAULT_LAST_CALL_SESSION_UPDATE_INTERVAL,
               MIN_LAST_CALL_SESSION_UPDATE_INTERVAL>>,
     iot |-> <<DEFAULT_METERS_UPDATE_INTERVAL, MIN_IOT_UPDATE_INTERVAL>>]

IntervalKeys == DOMAIN IntervalsWithDefaults

\* The characters of a device id: one that `[a-zA-Z0-9]` matches and one
\* that it does not.
Characters == {"a", "-"}
Alphanumeric == {"a"}

\* The device ids typed into the form: the empty one, and some letters
\* followed by any character.
DeviceIds ==
    {<<>>} \cup {[i \in 1..n |-> "a"] \o <<c>> :
                    n \in 0..(MaxDeviceIdLen - 1), c \in Characters}

\* The seconds typed into an interval field (`total_seconds()` of a
\* positive time period): zero, just below the minimum, the minimum.
SubmittedIntervals(key) ==
    {0, IntervalsWithDefaults[key][2] - 1, IntervalsWithDefaults[key][2]}

\* `user_input` is None when the form is first asked for.
NoInput == [none |-> TRUE]

UserInputs ==
    {[intervals |-> iv, device_id |-> d] :
        iv \in {f \in [IntervalKeys -> UNION {SubmittedIntervals(k) : k \in IntervalKeys}] :
                  \A k \in IntervalKeys : f[k] \in SubmittedIntervals(k)},
        d \in DeviceIds}

\* `{"hours": v // 3600, "minutes": (v % 3600) // 60, "seconds": v % 60}`
TimePeriodDict(v) ==
    [hours |-> v \div 3600, minutes |-> (v % 3600) \div 60, seconds |-> v % 60]

\* A new entry holds the default intervals (async_submit_entry) and the
\* device id typed at setup.
InitOptions ==
    optionsFlow = [options |-> [intervals |-> [k \in IntervalKeys |->
                                                 IntervalsWithDefaults[k][1]],
                                device_id |-> [i \in 1..MIN_DEVICE_ID_LENGTH |-> "a"]],
                   submitted |-> NoInput,
                   result |-> "none",
                   errors |-> {},
                   placeholders |-> {},
                   suggested |-> [k \in IntervalKeys |-> TimePeriodDict(0)],
                   submits |-> 0]

\* `re.fullmatch(r"[a-zA-Z0-9]+", device_id)`
FullMatch(device_id) ==
    /\ Len(device_id) >= 1
    /\ \A i \in 1..Len(device_id) : device_id[i] \in Alphanumeric

\* An interval check that takes zero for too low as well.
TooLowWithZero(value, min_interval) == value < min_interval

\* `normalized_configuration[interval_key] < min_interval
\*  and normalized_configuration[interval_key] != 0`
TooLow(value, min_interval) == value < min_interval /\ value # 0

\* The `errors` of a submitted form, as pairs of field and error.
ErrorsOf(user_input) ==
    (IF ~FullMatch(user_input.device_id)
     THEN {<<"device_id", "device_id_invalid_characters">>}
     ELSE IF Len(user_input.device_id) < MIN_DEVICE_ID_LENGTH
     THEN {<<"device_id", "device_id_too_short">>}
     ELSE {})
    \cup {<<k, "too_low">> : k \in {key \in IntervalKeys :
            TooLow(user_input.intervals[key], IntervalsWithDefaults[key][2])}}

\* PikIntercomOptionsFlow.async_step_init(user_input)
StepInit(user_input) ==
    /\ optionsFlow.submits < MaxSubmits
    /\ LET errors == IF user_input = NoInput THEN {} ELSE ErrorsOf(user_input)
           normalized == IF user_input = NoInput THEN optionsFlow.options
                         ELSE user_input
       IN IF user_input # NoInput /\ errors = {}
          THEN optionsFlow' = [optionsFlow EXCEPT
                   !.options = normalized,
                   !.submitted = user_input,
                   !.result = "create_entry",
                   !.errors = {},
                   !.placeholders = {},
                   !.submits = @ + 1]
          ELSE optionsFlow' = [optionsFlow EXCEPT
                   !.submitted = user_input,
                   !.result = "form",
                   !.errors = errors,
                   !.placeholders = {<<e[1], IntervalsWithDefaults[e[1]][2]>> :
                                        e \in {x \in errors : x[1] \in IntervalKeys}},
                   !.suggested = [k \in IntervalKeys |->
                                     TimePeriodDict(normalized.intervals[k])],
                   !.submits = @ + 1]
    /\ UNCHANGED othersOfOptions

NextOptions ==
    \E user_input \in UserInputs \cup {NoInput} : StepInit(user_input)

(***************************************************************************)
(*      Properties of the options flow (config_flow.py)                    *)
(***************************************************************************)
\* The fields of a submitted form that the validation is to refuse: the
\* intervals that are not zero and below 15 s (ICM intercoms, IoT devices),
\* 3 s (last call session) or 7200 s (reauthentication), and the device id
\* when it has a character that is no letter or digit or has fewer than 6
\* characters.
Offending(user_input) ==
    LET minimum == [icm |-> 15, iot |-> 15, lcs |-> 3, auth |-> 7200]
    IN {k \in IntervalKeys : user_input.intervals[k] # 0
                              /\ user_input.intervals[k] < minimum[k]}
       \cup (IF \/ \E i \in 1..Len(user_input.device_id) :
                      user_input.device_id[i] # "a"
                \/ Len(user_input.device_id) < 6
             THEN {"device_id"} ELSE {})

\* C29: a step of the options flow saves the submitted options exactly when
\* no interval is non-zero and below its minimum and the device id has only
\* letters and digits and the minimum length; otherwise it leaves the
\* entry's options as they were and shows the form again with one error for
\* each offending field, and for no other field.  An interval of 0 offends
\* nothing.
C29_SavesOnlyValidOptions ==
    [][optionsFlow' # optionsFlow /\ optionsFlow'.submitted # NoInput =>
        LET user_input == optionsFlow'.submitted
        IN IF Offending(user_input) = {}
           THEN /\ optionsFlow'.result = "create_entry"
                /\ optionsFlow'.options = user_input
           ELSE /\ optionsFlow'.result = "form"
                /\ optionsFlow'.options = optionsFlow.options
                /\ {e[1] : e \in optionsFlow'.errors} = Offending(user_input)
                /\ \A e, f \in optionsFlow'.errors : e[1] = f[1] => e = f]_vars

\* A form with a zero interval and the other fields valid has been saved.
C29_Witness ==
    /\ optionsFlow.result = "create_entry"
    /\ optionsFlow.submitted # NoInput
    /\ optionsFlow.options.intervals["lcs"] = 0
    /\ optionsFlow.options.intervals["auth"] = 7200

\* A form with an interval below its minimum and a device id that is too
\* short has been shown again with both errors.
C29_WitnessRefused ==
    /\ optionsFlow.result = "form"
    /\ optionsFlow.submitted # NoInput
    /\ optionsFlow.errors = {<<"device_id", "device_id_too_short">>,
                             <<"auth", "too_low">>}

(***************************************************************************)
(*       switch.py: _BaseUnlockerSwitch                                    *)
(***************************************************************************)
\* `self._turn_off_waiter = None`; a timer made by async_call_later is
\* known by the number of the turn-on that made it.
NoWaiter == [timer |-> 0]

InitSwitch ==
    unlocker = [waiter |-> NoWaiter,     \* _turn_off_waiter
                timers |-> {},           \* the resets scheduled and not yet fired
                awaiting |-> 0,          \* turn-ons inside async_request_unlock
                requests |-> 0,          \* unlock requests sent
                scheduled |-> 0,         \* timers made so far
                turn_ons |-> 0,
                turn_offs |-> 0,
                last |-> [kind |-> "none", timer |-> 0]]

\* `is_on`: `self._turn_off_waiter is not None`
IsOn == unlocker.waiter # NoWaiter

\* async_turn_on up to its await: nothing when the switch is on, otherwise
\* the unlock request is sent.
TurnOn ==
    /\ unlocker.turn_ons < MaxTurnOns
    /\ IF IsOn
       THEN unlocker' = [unlocker EXCEPT !.turn_ons = @ + 1,
                             !.last = [kind |-> "turn_on_ignored", timer |-> 0]]
       ELSE unlocker' = [unlocker EXCEPT !.turn_ons = @ + 1,
                             !.requests = @ + 1,
                             !.awaiting = @ + 1,
                             !.last = [kind |-> "unlock_requested", timer |-> 0]]
    /\ UNCHANGED othersOfSwitch

\* async_turn_on after its await: a failed request raises, a successful one
\* schedules _reset_lock and keeps the timer in _turn_off_waiter.
RequestUnlockDone(ok) ==
    /\ unlocker.awaiting > 0
    /\ IF ok
       THEN LET made == [timer |-> unlocker.scheduled + 1]
            IN unlocker' = [unlocker EXCEPT !.awaiting = @ - 1,
                                !.scheduled = @ + 1,
                                !.waiter = made,
                                !.timers = @ \cup {made},
                                !.last = [kind |-> "turned_on",
                                          timer |-> made.timer]]
       ELSE unlocker' = [unlocker EXCEPT !.awaiting = @ - 1,
                             !.last = [kind |-> "unlock_failed", timer |-> 0]]
    /\ UNCHANGED othersOfSwitch

\* async_turn_off: the waiter is dropped; its timer is not cancelled.
TurnOff ==
    /\ unlocker.turn_offs < MaxTurnOffs
    /\ unlocker' = [unlocker EXCEPT !.waiter = NoWaiter,
                        !.turn_offs = @ + 1,
                        !.last = [kind |-> "turn_off", timer |-> 0]]
    /\ UNCHANGED othersOfSwitch

\* _reset_lock of the oldest timer (all timers wait the same 5 seconds):
\* the turn_off service is called and the waiter is dropped.
ResetLock ==
    /\ unlocker.timers # {}
    /\ LET fired == CHOOSE t \in unlocker.timers :
                        \A u \in unlocker.timers : t.timer <= u.timer
       IN unlocker' = [unlocker EXCEPT !.waiter = NoWaiter,
                           !.timers = @ \ {fired},
                           !.last = [kind |-> "reset", timer |-> fired.timer]]
    /\ UNCHANGED othersOfSwitch

NextSwitch ==
    \/ TurnOn
    \/ \E ok \in BOOLEAN : RequestUnlockDone(ok)
    \/ TurnOff
    \/ ResetLock

(***************************************************************************)
(*      Properties of the unlocker switch (switch.py)                      *)
(***************************************************************************)
\* C30: under any interleaving of turn-on, turn-off and reset-timer events,
\* a turn-on while the switch is on sends no unlock request, a failed
\* unlock request does not turn the switch on, and a switch that is on goes
\* off only by a turn-off or by the reset that the turn-on which turned it
\* on has scheduled: the reset of an earlier turn-on never turns off a
\* later one.
C30_OnUntilOwnReset ==
    [][/\ (unlocker.waiter # NoWaiter /\ unlocker'.turn_ons # unlocker.turn_ons)
            => unlocker'.requests = unlocker.requests
       /\ unlocker'.last.kind = "unlock_failed"
            => unlocker'.waiter = unlocker.waiter
       /\ (unlocker.waiter # NoWaiter /\ unlocker'.waiter # unlocker.waiter)
            => \/ unlocker'.last.kind = "turn_off"
               \/ unlocker'.last.kind = "turned_on"
               \/ /\ unlocker'.last.kind = "reset"
                  /\ unlocker'.last.timer = unlocker.waiter.timer]_vars

\* What holds of the switch: a turn-on while it is on sends no unlock
\* request, and a failed unlock request leaves the waiter as it was.
NoRequestWhileOn ==
    [][/\ (unlocker.waiter # NoWaiter /\ unlocker'.turn_ons # unlocker.turn_ons)
            => unlocker'.requests = unlocker.requests
       /\ unlocker'.last.kind = "unlock_failed"
            => unlocker'.waiter = unlocker.waiter]_vars

(***************************************************************************)
(*                            Specifications                               *)
(***************************************************************************)
Init ==
    /\ InitDedup
    /\ InitRetry
    /\ InitFetch
    /\ InitReconcile
    /\ InitSetup
    /\ InitObjects
    /\ InitClient
    /\ InitLcs
    /\ InitIcm
    /\ InitUnload
    /\ InitSchedule
    /\ InitOptions
    /\ InitSwitch

SpecDedup == Init /\ [][NextDedup]_vars
SpecRetry == Init /\ [][NextRetry]_vars
SpecFetch == Init /\ [][NextFetch]_vars
SpecReconcile == Init /\ [][NextReconcile]_vars
SpecSetup == Init /\ [][NextSetup]_vars
SpecObjects == Init /\ [][NextObjects]_vars
SpecClient == Init /\ [][NextClient]_vars
SpecLcs == Init /\ [][NextLcs]_vars
SpecIcm == Init /\ [][NextIcm]_vars
SpecUnload == Init /\ [][NextUnload]_vars
SpecSchedule == Init /\ [][NextSchedule]_vars
SpecOptions == Init /\ [][NextOptions]_vars
SpecSwitch == Init /\ [][NextSwitch]_vars

====
